---------------------------- MODULE Spec2Model ----------------------------
(***************************************************************************)
(* Resume_Optimizer: keyword extraction (ats/keyword_extract.py), ATS      *)
(* scoring (ats/scorer.py) and the constrained LaTeX bullet rewriter       *)
(* (latex/rewriter.py, latex/ast_parser.py).                               *)
(*                                                                         *)
(* Text is modelled as a sequence of one-character strings, so that        *)
(* str.lower, str.find, str.count, slicing and len are computed as Python  *)
(* computes them.  Positions are 0-based where the code's are.             *)
(***************************************************************************)
EXTENDS Integers, Sequences, FiniteSets, TLC

VARIABLES
    \* ---- latex/rewriter.py: optimize_resume -------------------------------
    tex_content,    \* argument: the original LaTeX text
    keywords,       \* argument: sequence of KeywordCandidate
    strict,         \* argument
    use_openai,     \* argument
    client,         \* does get_openai_client() return a client (cached per process)
    synOrder,       \* iteration order of each candidate's synonym set (hash order)
    lines,          \* document.lines
    bullets,        \* document.bullets
    usage,          \* the usage ledger (Counter), keyed by token
    before_counts,  \* token -> count in tex_content
    idx,            \* position of the bullet loop (1-based)
    kidx,           \* position of the candidate loop (1-based)
    original,       \* local: bullet.content at loop entry
    updated,        \* local: the bullet content being edited
    per_bullet,     \* local Counter
    pc,             \* control point
    optimized_tex,  \* RewriteResult.optimized_tex
    keyword_map,    \* RewriteResult.keyword_map
    inserted,       \* history: edits (substitution or append) made per token
    recorded,       \* history: occurrences added to the ledger without an edit
    \* ---- cli/resume_opt.py: _optimize -------------------------------------
    before,         \* score of the resume as given
    after,          \* score of the optimized resume
    \* ---- ats/scorer.py: one call of ATSScorer.score ------------------------
    sc_args,        \* the arguments of the call
    breakdown,      \* the ScoreBreakdown returned (NoBreakdown before the return)
    previous,       \* history: arguments and breakdown of the call before this one
    \* ---- ats/keyword_extract.py: one call of extract_keywords --------------
    job_text,       \* argument `text`
    max_keywords,   \* argument
    use_openai_arg, \* argument `use_openai` of the caller's call (default True)
    api_key,        \* is OPENAI_API_KEY set
    has_openai,     \* did `from openai import OpenAI` succeed (OpenAI is not None)
    stack,          \* the call stack, innermost frame last
    status,         \* running | returning | raising | returned | raised
    result,         \* the list being returned
    served,         \* history: the list was built from an answer of the service
    answer,         \* history: keywords_data, the parsed array of that answer
    \* ---- cli/resume_opt.py: pipeline --------------------------------------
    postings,       \* scraper.harvest(...): per posting, the total _optimize finds
    ats_threshold,  \* option --ats-threshold, in hundredths
    posting_idx,    \* position of the loop over postings (1-based)
    best_result,    \* local best_result (NoResult for None)
    files,          \* per artifact path of output_dir, the posting it was written for
    optimized,      \* history: the postings _optimize was called for, in call order
    exit_code,      \* exit code of the command ("none" while it runs)
    ppc             \* control point of the command

rvars == <<tex_content, keywords, strict, use_openai, client, synOrder, lines,
           bullets, usage, before_counts, idx, kidx, original, updated,
           per_bullet, pc, optimized_tex, keyword_map, inserted, recorded,
           before, after>>

svars == <<sc_args, breakdown, previous>>

evars == <<job_text, max_keywords, use_openai_arg, api_key, has_openai, stack,
           status, result, served, answer>>

pvars == <<postings, ats_threshold, posting_idx, best_result, files, optimized,
           exit_code, ppc>>

vars == <<rvars, svars, evars, pvars>>

-----------------------------------------------------------------------------
(* Python str primitives                                                   *)

Min(a, b) == IF a < b THEN a ELSE b
Max(a, b) == IF a > b THEN a ELSE b
Abs(a) == IF a < 0 THEN -a ELSE a
Range(f) == {f[i] : i \in DOMAIN f}

LowerAlphabet ==
    <<"a", "b", "c", "d", "e", "f", "g", "h", "i", "j", "k", "l", "m",
      "n", "o", "p", "q", "r", "s", "t", "u", "v", "w", "x", "y", "z">>
UpperAlphabet ==
    <<"A", "B", "C", "D", "E", "F", "G", "H", "I", "J", "K", "L", "M",
      "N", "O", "P", "Q", "R", "S", "T", "U", "V", "W", "X", "Y", "Z">>

LowerLetters == Range(LowerAlphabet)
UpperLetters == Range(UpperAlphabet)
UpperCase == [c \in UpperLetters |->
                 LowerAlphabet[CHOOSE i \in 1..Len(UpperAlphabet) : UpperAlphabet[i] = c]]

\* The one character whose lower-case form is two characters long: U+0130,
\* LATIN CAPITAL LETTER I WITH DOT ABOVE, becomes "i" and U+0307, COMBINING DOT
\* ABOVE.  Each is one element of a text, written here by its code point.
DotI == "U+0130"
DotAbove == "U+0307"

\* str.lower() of s[i..]: U+0130 becomes two characters, every other
\* character one; the recursion steps from one U+0130 to the next
RECURSIVE LowerFrom(_, _)
LowerFrom(s, i) ==
    LET dotted == {j \in i..Len(s) : s[j] = DotI}
        p == IF dotted = {} THEN Len(s) + 1
             ELSE CHOOSE j \in dotted : \A k \in dotted : j <= k
        plain == [k \in 1..(p - i) |->
                    IF s[i + k - 1] \in UpperLetters THEN UpperCase[s[i + k - 1]]
                    ELSE s[i + k - 1]]
    IN  IF dotted = {} THEN plain
        ELSE plain \o <<"i", DotAbove>> \o LowerFrom(s, p + 1)

\* str.lower()
Lower(s) ==
    IF \E i \in 1..Len(s) : s[i] = DotI THEN LowerFrom(s, 1)
    ELSE SubSeq([i \in 1..Len(s) |-> IF s[i] \in UpperLetters THEN UpperCase[s[i]] ELSE s[i]],
                1, Len(s))

\* s[a:b] with Python's clamping (a, b >= 0)
Slice(s, a, b) == SubSeq(s, Min(a, Len(s)) + 1, Min(b, Len(s)))

\* does sub occur in s at 0-based offset i
MatchAt(s, sub, i) ==
    /\ i >= 0
    /\ i + Len(sub) <= Len(s)
    /\ \A j \in 1..Len(sub) : s[i + j] = sub[j]

\* str.find(sub, start): lowest 0-based index >= start, or -1
FindFrom(s, sub, start) ==
    LET hits == {i \in start..(Len(s) - Len(sub)) : MatchAt(s, sub, i)}
    IN  IF hits = {} THEN -1 ELSE CHOOSE i \in hits : \A j \in hits : i <= j

Find(s, sub) == FindFrom(s, sub, 0)

\* sub in s
Contains(s, sub) == \E i \in 0..(Len(s) - Len(sub)) : MatchAt(s, sub, i)

RECURSIVE CountFrom(_, _, _)
CountFrom(s, sub, start) ==
    LET i == FindFrom(s, sub, start)
    IN  IF i = -1 THEN 0 ELSE 1 + CountFrom(s, sub, i + Max(Len(sub), 1))

\* str.count(sub): non-overlapping occurrences, scanning from the left
Count(s, sub) == IF Len(sub) = 0 THEN Len(s) + 1 ELSE CountFrom(s, sub, 0)

IsSpace(c) == c \in {" ", "\t"}

RECURSIVE LStrip(_)
LStrip(s) == IF Len(s) > 0 /\ IsSpace(s[1]) THEN LStrip(Tail(s)) ELSE s

RECURSIVE RStrip(_)
RStrip(s) == IF Len(s) > 0 /\ IsSpace(s[Len(s)]) THEN RStrip(SubSeq(s, 1, Len(s) - 1)) ELSE s

\* str.strip()
Strip(s) == RStrip(LStrip(s))

\* str.split(): the maximal runs of non-whitespace characters
RECURSIVE Split(_)
Split(s) ==
    LET t == LStrip(s)
        ends == {i \in 1..Len(t) : IsSpace(t[i])}
        stop == IF ends = {} THEN Len(t) + 1 ELSE CHOOSE i \in ends : \A j \in ends : i <= j
    IN  IF Len(t) = 0 THEN <<>>
        ELSE <<SubSeq(t, 1, stop - 1)>> \o Split(SubSeq(t, stop, Len(t)))

\* str.endswith(suffix)
EndsWith(s, suffix) == Len(s) >= Len(suffix) /\ MatchAt(s, suffix, Len(s) - Len(suffix))

\* text.splitlines(), for texts whose only line boundary is "\n"
RECURSIVE SplitLines(_)
SplitLines(s) ==
    IF Len(s) = 0 THEN <<>>
    ELSE LET i == Find(s, <<"\n">>)
         IN  IF i = -1 THEN <<s>>
             ELSE <<Slice(s, 0, i)>> \o SplitLines(Slice(s, i + 1, Len(s)))

\* "\n".join(lines)
RECURSIVE JoinLines(_)
JoinLines(ls) ==
    IF Len(ls) = 0 THEN <<>>
    ELSE IF Len(ls) = 1 THEN ls[1]
    ELSE ls[1] \o <<"\n">> \o JoinLines(Tail(ls))

-----------------------------------------------------------------------------
(* ats/keyword_extract.py: the curated synonym table, restricted to the    *)
(* tokens this model uses                                                  *)

STOPWORDS ==
    { <<"t", "h", "e">>,
      <<"a", "n", "d">>,
      <<"f", "o", "r">>,
      <<"w", "i", "t", "h">>,
      <<"t", "h", "a", "t">>,
      <<"t", "h", "i", "s">>,
      <<"f", "r", "o", "m">>,
      <<"i", "n", "t", "o">>,
      <<"w", "i", "l", "l">>,
      <<"y", "o", "u", "r">>,
      <<"h", "a", "v", "e">>,
      <<"w", "o", "r", "k">>,
      <<"t", "e", "a", "m">>,
      <<"r", "o", "l", "e">>,
      <<"s", "k", "i", "l", "l", "s">>,
      <<"r", "e", "q", "u", "i", "r", "e", "d">>,
      <<"r", "e", "s", "p", "o", "n", "s", "i", "b", "i", "l", "i", "t", "i", "e", "s">>,
      <<"e", "x", "p", "e", "r", "i", "e", "n", "c", "e">> }

SYNONYMS(token) ==
    CASE token = <<"p", "y", "t", "h", "o", "n">> ->
            { <<"p", "a", "n", "d", "a", "s">>, <<"n", "u", "m", "p", "y">> }
      [] token = <<"t", "e", "s", "t", "i", "n", "g">> ->
            { <<"q", "a">>, <<"q", "u", "a", "l", "i", "t", "y">> }
      [] OTHER -> {}

\* SYNONYMS.get(candidate.token, set()) | set(candidate.synonyms)
SynonymSet(candidate) == SYNONYMS(candidate.token) \cup Range(candidate.synonyms)

\* sorted(SYNONYMS.get(token, [])): the table's entry as a sorted list
SortedSynonyms(token) ==
    CASE token = <<"p", "y", "t", "h", "o", "n">> ->
            << <<"n", "u", "m", "p", "y">>, <<"p", "a", "n", "d", "a", "s">> >>
      [] token = <<"t", "e", "s", "t", "i", "n", "g">> ->
            << <<"q", "a">>, <<"q", "u", "a", "l", "i", "t", "y">> >>
      [] OTHER -> <<>>

\* KeywordCandidate(token, score, synonyms); score is kept in halves (2 = 1.0)
KeywordCandidate(token, score_, synonyms) ==
    [token |-> token, score |-> score_, synonyms |-> synonyms]

Digits == {"0", "1", "2", "3", "4", "5", "6", "7", "8", "9"}
IsLetter(c) == c \in LowerLetters \/ c \in UpperLetters
\* [a-zA-Z0-9+.#-]
IsTokenChar(c) == IsLetter(c) \/ c \in Digits \/ c \in {"+", ".", "#", "-"}

\* length of the run of token characters of s that starts at 0-based offset i
RECURSIVE RunLength(_, _)
RunLength(s, i) ==
    IF i < Len(s) /\ IsTokenChar(s[i + 1]) THEN 1 + RunLength(s, i + 1) ELSE 0

\* TOKEN_PATTERN.finditer(text), lower-cased: [a-zA-Z][a-zA-Z0-9+.#-]{2,}
RECURSIVE FindTokens(_, _)
FindTokens(s, i) ==
    IF i >= Len(s) THEN <<>>
    ELSE IF IsLetter(s[i + 1]) /\ RunLength(s, i) >= 3
    THEN <<Lower(Slice(s, i, i + RunLength(s, i)))>> \o FindTokens(s, i + RunLength(s, i))
    ELSE FindTokens(s, i + 1)

\* [x for x in seq if Keep(x)]
RECURSIVE Filter(_, _)
Filter(seq, keep) ==
    IF seq = <<>> THEN <<>>
    ELSE IF Head(seq) \in keep THEN <<Head(seq)>> \o Filter(Tail(seq), keep)
    ELSE Filter(Tail(seq), keep)

\* normalise(text)
normalise(s) ==
    LET tokens == FindTokens(s, 0)
    IN  Filter(tokens, Range(tokens) \ STOPWORDS)

\* list(_ngram(tokens, 2))
_ngram2(tokens) ==
    [i \in 1..(IF Len(tokens) >= 2 THEN Len(tokens) - 1 ELSE 0) |->
        tokens[i] \o <<" ">> \o tokens[i + 1]]

\* number of occurrences of x in seq (Counter(seq)[x])
Occurrences(seq, x) == Cardinality({i \in 1..Len(seq) : seq[i] = x})

\* 0-based index of the first occurrence of x in seq
FirstIndex(seq, x) == (CHOOSE i \in 1..Len(seq) : seq[i] = x /\ \A j \in 1..(i - 1) : seq[j] # x) - 1

\* the elements of seq whose 1-based position satisfies the rank: a stable sort
\* of seq by ascending key, key being a function on 1..Len(seq)
StableSort(seq, key) ==
    LET before_(i, j) == key[i] < key[j] \/ (key[i] = key[j] /\ i < j)
        rank(i) == Cardinality({j \in 1..Len(seq) : before_(j, i)}) + 1
    IN  [r \in 1..Len(seq) |-> seq[CHOOSE i \in 1..Len(seq) : rank(i) = r]]

\* the distinct elements of seq in order of first occurrence (the keys of Counter(seq))
Keys(seq) ==
    LET firsts == {i \in 1..Len(seq) : \A j \in 1..(i - 1) : seq[j] # seq[i]}
        pos(r) == CHOOSE i \in firsts : Cardinality({j \in firsts : j < i}) = r - 1
    IN  [r \in 1..Cardinality(firsts) |-> seq[pos(r)]]

\* Counter(seq).most_common(): the keys by descending count, ties in insertion order
most_common(seq) ==
    LET keys == Keys(seq)
    IN  StableSort(keys, [i \in 1..Len(keys) |-> 0 - Occurrences(seq, keys[i])])

\* the score of a bigram seen `count` times, without the bonus of line 169
BigramScoreNoBonus(count) == 2 * count

\* float(count) + 0.5, in halves
BigramScore(count) == 2 * count + 1

\* float(count), in halves
UnigramScore(count) == 2 * count

\* lines 172-180: the deduplicating loop, with its break
RECURSIVE Dedupe(_, _, _, _)
Dedupe(sorted, i, deduped, limit) ==
    IF i > Len(sorted) THEN deduped
    ELSE IF \E j \in 1..Len(deduped) : deduped[j].token = sorted[i].token
    THEN Dedupe(sorted, i + 1, deduped, limit)
    ELSE IF Len(deduped) + 1 >= limit THEN Append(deduped, sorted[i])
    ELSE Dedupe(sorted, i + 1, Append(deduped, sorted[i]), limit)

\* extract_keywords(text, max_keywords=limit, use_openai=False), lines 143-182
FrequencyStrategy(s, limit) ==
    LET tokens == normalise(s)
        bigram_tokens == _ngram2(tokens)
        offset == Len(tokens)
        first_seen(t) ==
            IF t \in Range(tokens) THEN FirstIndex(tokens, t)
            ELSE IF t \in Range(bigram_tokens) THEN offset + FirstIndex(bigram_tokens, t)
            ELSE 0
        unigrams == most_common(tokens)
        bigrams == most_common(bigram_tokens)
        kept == Filter(bigrams, {b \in Range(bigrams) : Range(Split(b)) \cap STOPWORDS = {}})
        candidates ==
            [i \in 1..Len(unigrams) |->
                KeywordCandidate(unigrams[i], UnigramScore(Occurrences(tokens, unigrams[i])),
                                 SortedSynonyms(unigrams[i]))]
            \o [i \in 1..Len(kept) |->
                KeywordCandidate(kept[i], BigramScore(Occurrences(bigram_tokens, kept[i])), <<>>)]
        \* key=lambda cand: (-cand.score, first_seen.get(cand.token, 0)), as one integer
        width == 2 * offset + 1
        key == [i \in 1..Len(candidates) |->
                   (0 - candidates[i].score) * width + first_seen(candidates[i].token)]
    IN  IF tokens = <<>> THEN <<>>
        ELSE Dedupe(StableSort(candidates, key), 1, <<>>, limit)

\* one item of the service's JSON array
Item(keyword, synonyms, importance) ==
    [keyword |-> keyword, synonyms |-> synonyms, importance |-> importance]

\* lines 113-123: the candidates built from the parsed array; importance is in
\* percent, and importance * 10 is kept in halves
RECURSIVE Candidates(_)
Candidates(keywords_data) ==
    IF keywords_data = <<>> THEN <<>>
    ELSE LET item == Head(keywords_data)
             keyword == Strip(Lower(item.keyword))
             synonyms == [i \in 1..Len(item.synonyms) |-> Strip(Lower(item.synonyms[i]))]
         IN  IF keyword # <<>> /\ keyword \notin STOPWORDS
             THEN <<KeywordCandidate(keyword, item.importance \div 5, synonyms)>>
                      \o Candidates(Tail(keywords_data))
             ELSE Candidates(Tail(keywords_data))

\* candidates[:max_keywords]
Take(seq, n) == SubSeq(seq, 1, Min(n, Len(seq)))

-----------------------------------------------------------------------------
(* latex/ast_parser.py                                                     *)

ITEM == <<"\\", "i", "t", "e", "m">>
SECTION_OPEN == <<"\\", "s", "e", "c", "t", "i", "o", "n", "{">>
SUBSECTION_OPEN == <<"\\", "s", "u", "b", "s", "e", "c", "t", "i", "o", "n", "{">>
NEWPAGE == <<"\\", "n", "e", "w", "p", "a", "g", "e">>
PAGEBREAK == <<"\\", "p", "a", "g", "e", "b", "r", "e", "a", "k">>

\* <pat>.search(line) for \\(sub)section\{(?P<name>[^}]*)\}: the name group of
\* the leftmost match, or the marker <<"\n">> (no line holds it) for no match
HeadingName(line, open) ==
    LET i == Find(line, open)
        rest == Slice(line, i + Len(open), Len(line))
        j == Find(rest, <<"}">>)
    IN  IF i = -1 \/ j = -1 THEN <<"\n">> ELSE Slice(rest, 0, j)

NoMatch == <<"\n">>

\* ITEM_PATTERN.match(line): ^(?P<lead>\s*)\\item(?:\[[^\]]*\])?\s*(?P<content>.*)$
ItemMatch(line) ==
    LET body == LStrip(line)
        lead == Slice(line, 0, Len(line) - Len(body))
        afterItem == Slice(body, Len(ITEM), Len(body))
        close == Find(afterItem, <<"]">>)
        afterLabel ==
            IF Len(afterItem) > 0 /\ afterItem[1] = "[" /\ close # -1
            THEN Slice(afterItem, close + 1, Len(afterItem))
            ELSE afterItem
    IN  [matched |-> MatchAt(body, ITEM, 0), lead |-> lead, content |-> LStrip(afterLabel)]

RECURSIVE ParseFrom(_, _)
ParseFrom(ls, i) ==
    IF i > Len(ls) THEN [bullets |-> <<>>, sections |-> <<>>]
    ELSE LET more == ParseFrom(ls, i + 1)
             sec == HeadingName(ls[i], SECTION_OPEN)
             sub == HeadingName(ls[i], SUBSECTION_OPEN)
             item == ItemMatch(ls[i])
         IN  IF sec # NoMatch
             THEN [more EXCEPT !.sections = <<[name |-> Lower(Strip(sec)), line_index |-> i]>> \o @]
             ELSE IF sub # NoMatch
             THEN [more EXCEPT !.sections = <<[name |-> Lower(Strip(sub)), line_index |-> i]>> \o @]
             ELSE IF item.matched
             THEN [more EXCEPT !.bullets =
                      <<[line_index |-> i, leading |-> item.lead,
                         content |-> Strip(item.content)]>> \o @]
             ELSE more

\* parse_document(text); line_index is the 1-based position in lines
parse_document(text) ==
    LET ls == SplitLines(text)
        parsed == ParseFrom(ls, 1)
    IN  [lines |-> ls, bullets |-> parsed.bullets, sections |-> parsed.sections]

\* Document.replace_bullet, the assignment to self.lines
replace_bullet_lines(ls, bullet, new_content) ==
    [ls EXCEPT ![bullet.line_index] = bullet.leading \o ITEM \o <<" ">> \o new_content]

\* Document.replace_bullet, the assignment to self.bullets
replace_bullet_bullets(bs, index, new_content) ==
    [bs EXCEPT ![index] = [line_index |-> bs[index].line_index,
                           leading |-> bs[index].leading,
                           content |-> new_content]]

\* Document.render
render(ls) == JoinLines(ls)

\* Document.bullet_texts
bullet_texts(bs) == [i \in 1..Len(bs) |-> bs[i].content]

\* Document.section_names
section_names(secs) == [i \in 1..Len(secs) |-> secs[i].name]

ApproxLinesPerPage == 55

\* Document.page_estimate
page_estimate(ls) ==
    LET page_breaks == Cardinality({i \in 1..Len(ls) :
                            Contains(ls[i], NEWPAGE) \/ Contains(ls[i], PAGEBREAK)})
        pages_by_length == Max(1, (Len(ls) + ApproxLinesPerPage - 1) \div ApproxLinesPerPage)
    IN  Max(page_breaks + 1, pages_by_length)

-----------------------------------------------------------------------------
(* ats/scorer.py.  Scores are floats rounded to 2 decimals; the model keeps *)
(* them as integers in hundredths (10000 = 100.00).                        *)

ACTION_VERBS ==
    { <<"a", "c", "c", "e", "l", "e", "r", "a", "t", "e", "d">>,
      <<"a", "c", "h", "i", "e", "v", "e", "d">>,
      <<"b", "u", "i", "l", "t">>,
      <<"c", "o", "o", "r", "d", "i", "n", "a", "t", "e", "d">>,
      <<"d", "e", "l", "i", "v", "e", "r", "e", "d">>,
      <<"d", "e", "s", "i", "g", "n", "e", "d">>,
      <<"d", "e", "v", "e", "l", "o", "p", "e", "d">>,
      <<"d", "r", "o", "v", "e">>,
      <<"e", "n", "a", "b", "l", "e", "d">>,
      <<"i", "m", "p", "r", "o", "v", "e", "d">>,
      <<"i", "m", "p", "l", "e", "m", "e", "n", "t", "e", "d">>,
      <<"l", "a", "u", "n", "c", "h", "e", "d">>,
      <<"l", "e", "d">>,
      <<"m", "a", "n", "a", "g", "e", "d">>,
      <<"o", "p", "t", "i", "m", "i", "z", "e", "d">>,
      <<"o", "w", "n", "e", "d">>,
      <<"r", "e", "d", "u", "c", "e", "d">>,
      <<"s", "c", "a", "l", "e", "d">>,
      <<"s", "p", "e", "a", "r", "h", "e", "a", "d", "e", "d">>,
      <<"s", "t", "r", "e", "a", "m", "l", "i", "n", "e", "d">> }

REQUIRED_SECTIONS ==
    { <<"e", "x", "p", "e", "r", "i", "e", "n", "c", "e">>,
      <<"e", "d", "u", "c", "a", "t", "i", "o", "n">>,
      <<"s", "k", "i", "l", "l", "s">> }

max_pages == 2

\* round(num / den) to the nearest integer, ties to even (num >= 0, den > 0)
Round(num, den) ==
    LET q == num \div den
        r == num % den
    IN  IF 2 * r < den THEN q
        ELSE IF 2 * r > den THEN q + 1
        ELSE IF q % 2 = 0 THEN q ELSE q + 1

RECURSIVE Sum(_, _)
\* sum of f[1..n]
Sum(f, n) == IF n = 0 THEN 0 ELSE f[n] + Sum(f, n - 1)

\* _coverage_score with 0.0 for an empty keyword list (lines 93-94)
CoverageEmptyIsZero(resume_text, kws) ==
    LET text == Lower(resume_text)
        matched == Cardinality({i \in 1..Len(kws) :
                       \/ Contains(text, kws[i].token)
                       \/ \E syn \in SynonymSet(kws[i]) : Contains(text, syn)})
    IN  IF Len(kws) = 0 THEN 0
        ELSE Round(10000 * Min(matched, Len(kws)), Len(kws))

\* _coverage_score without the synonyms of lines 90-92
CoverageTokensOnly(resume_text, kws) ==
    LET text == Lower(resume_text)
        matched == Cardinality({i \in 1..Len(kws) : Contains(text, kws[i].token)})
    IN  IF Len(kws) = 0 THEN 10000
        ELSE Round(10000 * Min(matched, Len(kws)), Len(kws))

\* ATSScorer._coverage_score
_coverage_score(resume_text, kws) ==
    LET text == Lower(resume_text)
        matched == Cardinality({i \in 1..Len(kws) :
                       \/ Contains(text, kws[i].token)
                       \/ \E syn \in SynonymSet(kws[i]) : Contains(text, syn)})
    IN  IF Len(kws) = 0 THEN 10000
        ELSE Round(10000 * Min(matched, Len(kws)), Len(kws))

\* _section_score comparing the section names as given (no lower() at line 99)
SectionScoreCaseSensitive(sections_present, pages) ==
    LET missing == REQUIRED_SECTIONS \ sections_present
        score == 100 - Cardinality(missing) * 20 - (IF pages > max_pages THEN 20 ELSE 0)
    IN  100 * Max(score, 0)

\* ATSScorer._section_score
_section_score(sections_present, pages) ==
    LET present == {Lower(section) : section \in sections_present}
        missing == REQUIRED_SECTIONS \ present
        score == 100 - Cardinality(missing) * 20 - (IF pages > max_pages THEN 20 ELSE 0)
    IN  100 * Max(score, 0)

\* _quality_score comparing the first word as written (no lower() at line 114)
QualityCaseSensitive(texts) ==
    LET n == Len(texts)
        words == [b \in 1..n |-> Split(texts[b])]
        verb_hits == Cardinality({b \in 1..n :
                        Len(words[b]) > 0 /\ words[b][1] \in ACTION_VERBS})
        short_or_long_penalties == Cardinality({b \in 1..n :
                        Len(texts[b]) < 35 \/ Len(texts[b]) > 220})
        tense_inconsistencies == Cardinality({b \in 1..n :
                        /\ \E w \in 1..Len(words[b]) : EndsWith(words[b][w], <<"e", "d">>)
                        /\ \E w \in 1..Min(5, Len(words[b])) :
                              EndsWith(words[b][w], <<"i", "n", "g">>)})
        scaled == 6000 * n + 3000 * verb_hits
                    - 400 * n * (short_or_long_penalties + tense_inconsistencies)
    IN  IF n = 0 THEN 5000
        ELSE IF scaled <= 0 THEN 0 ELSE Round(scaled, n)

\* ATSScorer._quality_score
_quality_score(texts) ==
    LET n == Len(texts)
        words == [b \in 1..n |-> Split(Lower(texts[b]))]
        verb_hits == Cardinality({b \in 1..n :
                        Len(words[b]) > 0 /\ words[b][1] \in ACTION_VERBS})
        short_or_long_penalties == Cardinality({b \in 1..n :
                        Len(texts[b]) < 35 \/ Len(texts[b]) > 220})
        tense_inconsistencies == Cardinality({b \in 1..n :
                        /\ \E w \in 1..Len(words[b]) : EndsWith(words[b][w], <<"e", "d">>)
                        /\ \E w \in 1..Min(5, Len(words[b])) :
                              EndsWith(words[b][w], <<"i", "n", "g">>)})
        \* n * (60.0 + verb_ratio * 30.0 - penalties * 4.0), in hundredths
        scaled == 6000 * n + 3000 * verb_hits
                    - 400 * n * (short_or_long_penalties + tense_inconsistencies)
    IN  IF n = 0 THEN 5000
        ELSE IF scaled <= 0 THEN 0 ELSE Round(scaled, n)

\* ATSScorer._distribution_score
_distribution_score(texts, kws) ==
    LET keyword_tokens == [i \in 1..Len(kws) |-> kws[i].token]
        k == Len(keyword_tokens)
        \* bullet_counter[keyword] += occurrences, once per entry of keyword_tokens
        times == [i \in 1..k |-> Cardinality({j \in 1..k : keyword_tokens[j] = keyword_tokens[i]})]
        \* bullet_counter[b][i]: the entry for keyword_tokens[i] in the Counter of bullet b
        bullet_counter == [b \in 1..Len(texts) |->
                             LET lowered == Lower(texts[b])
                             IN  [i \in 1..k |-> times[i] * Count(lowered, keyword_tokens[i])]]
        \* counts[i]: the entry for keyword_tokens[i] in `counts`
        counts == [i \in 1..k |->
                     Sum([b \in 1..Len(texts) |-> bullet_counter[b][i]], Len(texts))]
        first == [i \in 1..k |-> \A j \in 1..(i - 1) : keyword_tokens[j] # keyword_tokens[i]]
        over(c, limit) == IF c > limit THEN (c - limit) * 5 ELSE 0
        tokenAt == [i \in 1..k |-> IF first[i] THEN over(counts[i], 2) ELSE 0]
        bulletAt == [b \in 1..Len(texts) |->
                      Sum([i \in 1..k |->
                             IF first[i] THEN over(bullet_counter[b][i], 1) ELSE 0], k)]
        penalties == Sum(tokenAt, k) + Sum(bulletAt, Len(texts))
        unique_coverage == Cardinality({i \in 1..k : counts[i] > 0})
        \* k * (70.0 + diversity_ratio * 30.0 - penalties), in hundredths
        scaled == 7000 * k + 3000 * unique_coverage - 100 * penalties * k
    IN  IF k = 0 THEN 10000
        ELSE IF scaled <= 0 THEN 0 ELSE Min(Round(scaled, k), 10000)

\* the total with the weight of coverage given to section
TotalWithoutCoverage(coverage, section, quality, distribution) ==
    Round(6 * section + 2 * quality + 2 * distribution, 10)

\* the four sub-scores weighted equally
TotalEqualWeights(coverage, section, quality, distribution) ==
    Round(coverage + section + quality + distribution, 4)

\* total = round(coverage * 0.4 + section * 0.2 + quality * 0.2 + distribution * 0.2, 2)
Total(coverage, section, quality, distribution) ==
    Round(4 * coverage + 2 * section + 2 * quality + 2 * distribution, 10)

\* ATSScorer.score (the details strings are left out)
score(resume_text, texts, kws, sections_present, pages) ==
    LET coverage == _coverage_score(resume_text, kws)
        section == _section_score(sections_present, pages)
        quality == _quality_score(texts)
        distribution == _distribution_score(texts, kws)
    IN  [coverage |-> coverage, section |-> section, quality |-> quality,
         distribution |-> distribution,
         total |-> Total(coverage, section, quality, distribution)]

-----------------------------------------------------------------------------
(* latex/rewriter.py                                                       *)

LengthBudget == 10
UsageCap == 2

\* _replace_synonym(text, synonym, keyword) -> (new_text, success)
_replace_synonym(text, synonym, keyword) ==
    LET lowered == Lower(text)
        i == Find(lowered, synonym)
    IN  IF i = -1 THEN [text |-> text, success |-> FALSE]
        ELSE IF Contains(Slice(text, Max(0, i - 2), i + Len(synonym) + 2), <<"\\">>)
        THEN [text |-> text, success |-> FALSE]
        ELSE [text |-> Slice(text, 0, i) \o keyword \o Slice(text, i + Len(synonym), Len(text)),
              success |-> TRUE]

\* What one call of client.chat.completions.create can do: raise, or answer with
\* a message content.  "echo" answers with the bullet itself.
Raises == [kind |-> "raise", text |-> <<>>]
Echo == [kind |-> "echo", text |-> <<>>]
Answer(t) == [kind |-> "content", text |-> t]

\* _optimize_bullet_openai without the validation of lines 80-82
OpenaiUnvalidated(bullet_content, has_client, outcome, strict_) ==
    IF ~has_client THEN bullet_content
    ELSE IF outcome.kind = "raise" THEN bullet_content
    ELSE LET rewritten == Strip(IF outcome.kind = "echo" THEN bullet_content ELSE outcome.text)
         IN  IF rewritten = <<>> THEN bullet_content ELSE rewritten

\* _optimize_bullet_openai(bullet_content, keywords, strict=...)
_optimize_bullet_openai(bullet_content, has_client, outcome, strict_) ==
    IF ~has_client THEN bullet_content
    ELSE IF outcome.kind = "raise" THEN bullet_content
    ELSE LET rewritten == Strip(IF outcome.kind = "echo" THEN bullet_content ELSE outcome.text)
         IN  IF rewritten = <<>> THEN bullet_content
             ELSE IF strict_ /\ Abs(Len(rewritten) - Len(bullet_content)) > LengthBudget
             THEN bullet_content
             ELSE rewritten

\* for candidate in keywords: usage[candidate.token] += updated.lower().count(candidate.token)
RECURSIVE AddCounts(_, _, _, _)
AddCounts(u, kws, i, text) ==
    IF i > Len(kws) THEN u
    ELSE AddCounts([u EXCEPT ![kws[i].token] = @ + Count(Lower(text), kws[i].token)],
                   kws, i + 1, text)

\* the synonym loop with the strict budget measured from the current text
\* instead of the bullet's original content
RECURSIVE TrySynonymsFromCurrent(_, _, _, _, _, _)
TrySynonymsFromCurrent(order, i, text, token, orig, strict_) ==
    IF i > Len(order) THEN [text |-> text, replaced |-> FALSE]
    ELSE LET r == _replace_synonym(text, order[i], token)
         IN  IF r.success /\ ~(strict_ /\ Abs(Len(r.text) - Len(text)) > LengthBudget)
             THEN [text |-> r.text, replaced |-> TRUE]
             ELSE TrySynonymsFromCurrent(order, i + 1, text, token, orig, strict_)

\* for synonym in synonyms: ... (lines 135-144), synonyms iterated in `order`
RECURSIVE TrySynonyms(_, _, _, _, _, _)
TrySynonyms(order, i, text, token, orig, strict_) ==
    IF i > Len(order) THEN [text |-> text, replaced |-> FALSE]
    ELSE LET r == _replace_synonym(text, order[i], token)
         IN  IF r.success /\ ~(strict_ /\ Abs(Len(r.text) - Len(orig)) > LengthBudget)
             THEN [text |-> r.text, replaced |-> TRUE]
             ELSE TrySynonyms(order, i + 1, text, token, orig, strict_)

\* f" ({candidate.token})"
Addition(token) == <<" ", "(">> \o token \o <<")">>

\* if strict and abs(len(updated) - len(original)) > 10: updated = original
FinalContent(upd, orig, strict_) ==
    IF strict_ /\ Abs(Len(upd) - Len(orig)) > LengthBudget THEN orig ELSE upd

Tokens(kws) == {kws[i].token : i \in 1..Len(kws)}

\* {candidate.token: text.lower().count(candidate.token) for candidate in keywords}
TokenCounts(kws, text) == [t \in Tokens(kws) |-> Count(Lower(text), t)]

-----------------------------------------------------------------------------
(* Inputs of the rewriter                                                  *)

MaxBullets == 2
MaxKeywords == 2

Python == <<"p", "y", "t", "h", "o", "n">>
Pandas == <<"p", "a", "n", "d", "a", "s">>
Kubernetes == <<"k", "u", "b", "e", "r", "n", "e", "t", "e", "s">>
K8s == <<"k", "8", "s">>
Testing == <<"t", "e", "s", "t", "i", "n", "g">>

CandidateInputs ==
    { KeywordCandidate(Python, 4, <<Pandas>>),
      KeywordCandidate(Pandas, 2, <<>>),
      KeywordCandidate(Kubernetes, 2, <<K8s>>) }

\* "Led pandas jobs."
BulletLed == <<"L", "e", "d", " ", "p", "a", "n", "d", "a", "s", " ", "j", "o", "b", "s", ".">>
\* "k8s qa Python python"
BulletRan == <<"k", "8", "s", " ", "q", "a", " ", "P", "y", "t", "h", "o", "n", " ", "p", "y", "t", "h", "o", "n">>

BulletInputs == {BulletLed, BulletRan}

\* " python. ": within the strict budget of BulletLed, outside that of BulletRan
AnswerText == <<" ", "p", "y", "t", "h", "o", "n", ".", " ">>

\* "Led python\njobs.": an answer of two lines, within the strict budget of both
AnswerLines == <<"L", "e", "d", " ", "p", "y", "t", "h", "o", "n", "\n", "j", "o", "b", "s", ".">>

AIOutcomes == {Raises, Echo, Answer(<<>>), Answer(AnswerText)}

\* the same with the answer of two lines
AIOutcomesLines == AIOutcomes \cup {Answer(AnswerLines)}

SectionLine == <<"\\", "s", "e", "c", "t", "i", "o", "n", "{", "S", "k", "i", "l", "l", "s", "}">>
BeginItemize == <<"\\", "b", "e", "g", "i", "n", "{", "i", "t", "e", "m", "i", "z", "e", "}">>
EndItemize == <<"\\", "e", "n", "d", "{", "i", "t", "e", "m", "i", "z", "e", "}">>
ItemLead == <<" ", " ">>

\* a resume: a section heading and an itemize of the given bullet contents
ResumeText(contents) ==
    JoinLines(<<SectionLine, BeginItemize>>
              \o [i \in 1..Len(contents) |-> ItemLead \o ITEM \o <<" ">> \o contents[i]]
              \o <<EndItemize>>)

SeqsUpTo(S, n) == UNION {[1..k -> S] : k \in 0..n}

Perms(S) == {p \in [1..Cardinality(S) -> S] : \A x \in S : \E i \in DOMAIN p : p[i] = x}

\* every way the synonym sets of the candidates in kws can iterate
SynOrders(kws) ==
    LET cands == Range(kws)
        all == UNION {Perms(SynonymSet(c)) : c \in cands}
    IN  {f \in [cands -> all] : \A c \in cands : f[c] \in Perms(SynonymSet(c))}

-----------------------------------------------------------------------------
(* optimize_resume as a state machine: one step per bullet entry, per      *)
(* candidate of the inner loop, per bullet exit, and the final render      *)

\* the variables of the other operations while one of them is modelled
RewriteIdle ==
    /\ tex_content = <<>> /\ keywords = <<>> /\ strict = FALSE /\ use_openai = FALSE
    /\ client = FALSE /\ synOrder = <<>> /\ lines = <<>> /\ bullets = <<>> /\ usage = <<>>
    /\ before_counts = <<>> /\ idx = 0 /\ kidx = 0 /\ original = <<>> /\ updated = <<>>
    /\ per_bullet = <<>> /\ pc = "idle" /\ optimized_tex = <<>> /\ keyword_map = <<>>
    /\ inserted = <<>> /\ recorded = <<>> /\ before = "none" /\ after = "none"

\* no ScoreBreakdown yet
NoBreakdown == [returned |-> FALSE]

ScoreIdle == sc_args = "none" /\ breakdown = NoBreakdown /\ previous = NoBreakdown

ExtractIdle ==
    /\ job_text = <<>> /\ max_keywords = 0 /\ use_openai_arg = FALSE
    /\ api_key = FALSE /\ has_openai = FALSE
    /\ stack = <<>> /\ status = "idle" /\ result = <<>> /\ served = FALSE
    /\ answer = <<>>

\* best_result = None
NoResult == [posting |-> 0, total |-> 0, meets_threshold |-> FALSE]

\* the keys of result["paths"] (lines 113-119): fixed names under output_dir
ArtifactPaths == {"optimized_tex", "diff", "keyword_map", "report", "pdf"}

PipelineIdle ==
    /\ postings = <<>> /\ ats_threshold = 0 /\ posting_idx = 0
    /\ best_result = NoResult /\ files = <<>> /\ optimized = <<>>
    /\ exit_code = "none" /\ ppc = "idle"

RewriteInit ==
    /\ \E contents \in SeqsUpTo(BulletInputs, MaxBullets) :
          \* document = parse_document(tex_content)
          LET text == ResumeText(contents)
              document == parse_document(text)
          IN  /\ tex_content = text
              /\ lines = document.lines
              /\ bullets = document.bullets
    /\ \E kws \in SeqsUpTo(CandidateInputs, MaxKeywords) :
          \* usage = Counter(); before_counts (lines 99-103)
          LET zero == [t \in Tokens(kws) |-> 0]
              counts == TokenCounts(kws, tex_content)
              orders == SynOrders(kws)
          IN  /\ keywords = kws
              /\ usage = zero
              /\ per_bullet = zero
              /\ inserted = zero
              /\ recorded = zero
              /\ before_counts = counts
              /\ synOrder \in orders
    /\ strict \in BOOLEAN
    /\ \E mode \in {"off", "noclient", "client"} :
          /\ use_openai = (mode # "off")
          /\ client = (mode = "client")
    /\ idx = 1
    /\ kidx = 1
    /\ original = <<>>
    /\ updated = <<>>
    /\ pc = "bullet"
    /\ optimized_tex = <<>>
    /\ keyword_map = <<>>
    /\ before = "none"
    /\ after = "none"
    /\ ScoreIdle
    /\ ExtractIdle
    /\ PipelineIdle

inputs == <<tex_content, keywords, strict, use_openai, client, synOrder>>

\* lines 106-121 without the test of line 112: every answer of the service
\* ends the bullet
OpenAIRewriteAlways(outcomes) ==
    /\ pc = "bullet"
    /\ idx <= Len(bullets)
    /\ use_openai
    /\ \E outcome \in outcomes :
          LET orig == bullets[idx].content
              ai_optimized == _optimize_bullet_openai(orig, client, outcome, strict)
          IN  /\ original' = orig
              /\ updated' = ai_optimized
              /\ usage' = AddCounts(usage, keywords, 1, ai_optimized)
              /\ recorded' = AddCounts(recorded, keywords, 1, ai_optimized)
              /\ lines' = replace_bullet_lines(lines, bullets[idx], ai_optimized)
              /\ bullets' = replace_bullet_bullets(bullets, idx, ai_optimized)
    /\ idx' = idx + 1
    /\ UNCHANGED <<inputs, before_counts, kidx, per_bullet, pc, optimized_tex,
                   keyword_map, inserted,
                   before, after, svars, evars, pvars>>

\* lines 106-121: the external rewrite is accepted
OpenAIRewriteOf(outcomes) ==
    /\ pc = "bullet"
    /\ idx <= Len(bullets)
    /\ use_openai
    /\ \E outcome \in outcomes :
          LET orig == bullets[idx].content
              ai_optimized == _optimize_bullet_openai(orig, client, outcome, strict)
          IN  /\ ai_optimized # orig
              /\ original' = orig
              /\ updated' = ai_optimized
              /\ usage' = AddCounts(usage, keywords, 1, ai_optimized)
              /\ recorded' = AddCounts(recorded, keywords, 1, ai_optimized)
              /\ lines' = replace_bullet_lines(lines, bullets[idx], ai_optimized)
              /\ bullets' = replace_bullet_bullets(bullets, idx, ai_optimized)
    /\ idx' = idx + 1
    /\ UNCHANGED <<inputs, before_counts, kidx, per_bullet, pc, optimized_tex,
                   keyword_map, inserted,
                   before, after, svars, evars, pvars>>

OpenAIRewrite == OpenAIRewriteOf(AIOutcomes)

\* lines 106-112 and 124-126: no external rewrite, or it changed nothing
StartDeterministic ==
    /\ pc = "bullet"
    /\ idx <= Len(bullets)
    /\ \/ ~use_openai
       \/ \E outcome \in AIOutcomes :
             _optimize_bullet_openai(bullets[idx].content, client, outcome, strict)
                = bullets[idx].content
    /\ original' = bullets[idx].content
    /\ updated' = bullets[idx].content
    /\ per_bullet' = TokenCounts(keywords, bullets[idx].content)
    /\ kidx' = 1
    /\ pc' = "keyword"
    /\ UNCHANGED <<inputs, lines, bullets, usage, before_counts, idx, optimized_tex,
                   keyword_map, inserted, recorded,
                   before, after, svars, evars, pvars>>

candidate == keywords[kidx]

AtCandidate == pc = "keyword" /\ kidx <= Len(keywords)

\* lines 128-129
SkipCapped ==
    /\ AtCandidate
    /\ usage[candidate.token] >= UsageCap
    /\ kidx' = kidx + 1
    /\ UNCHANGED <<inputs, lines, bullets, usage, before_counts, idx, original, updated,
                   per_bullet, pc, optimized_tex, keyword_map, inserted, recorded,
                   before, after, svars, evars, pvars>>

\* lines 130-132
RecordExisting ==
    /\ AtCandidate
    /\ usage[candidate.token] < UsageCap
    /\ per_bullet[candidate.token] >= 1
    /\ usage' = [usage EXCEPT ![candidate.token] = @ + per_bullet[candidate.token]]
    /\ recorded' = [recorded EXCEPT ![candidate.token] = @ + per_bullet[candidate.token]]
    /\ kidx' = kidx + 1
    /\ UNCHANGED <<inputs, lines, bullets, before_counts, idx, original, updated,
                   per_bullet, pc, optimized_tex, keyword_map, inserted,
                   before, after, svars, evars, pvars>>

Attempt == TrySynonyms(synOrder[candidate], 1, updated, candidate.token, original, strict)

\* the candidate loop without the check of lines 128-129
NeedsEditUncapped ==
    /\ AtCandidate
    /\ per_bullet[candidate.token] < 1

\* lines 128-132 passed: the candidate is neither capped nor present
NeedsEdit ==
    /\ AtCandidate
    /\ usage[candidate.token] < UsageCap
    /\ per_bullet[candidate.token] < 1

\* lines 133-146: a synonym is replaced by the token
Substitute ==
    /\ NeedsEdit
    /\ Attempt.replaced
    /\ updated' = Attempt.text
    /\ usage' = [usage EXCEPT ![candidate.token] = @ + 1]
    /\ per_bullet' = [per_bullet EXCEPT ![candidate.token] = @ + 1]
    /\ inserted' = [inserted EXCEPT ![candidate.token] = @ + 1]
    /\ kidx' = kidx + 1
    /\ UNCHANGED <<inputs, lines, bullets, before_counts, idx, original, pc,
                   optimized_tex, keyword_map, recorded,
                   before, after, svars, evars, pvars>>

\* the parenthetical suffix appended whatever the policy
AppendSuffixAnyPolicy ==
    /\ NeedsEdit
    /\ ~Attempt.replaced
    /\ updated' = updated \o Addition(candidate.token)
    /\ usage' = [usage EXCEPT ![candidate.token] = @ + 1]
    /\ per_bullet' = [per_bullet EXCEPT ![candidate.token] = @ + 1]
    /\ inserted' = [inserted EXCEPT ![candidate.token] = @ + 1]
    /\ kidx' = kidx + 1
    /\ UNCHANGED <<inputs, lines, bullets, before_counts, idx, original, pc,
                   optimized_tex, keyword_map, recorded,
                   before, after, svars, evars, pvars>>

\* lines 147-152: the parenthetical suffix
AppendSuffix ==
    /\ NeedsEdit
    /\ ~Attempt.replaced
    /\ ~strict /\ usage[candidate.token] < UsageCap
    /\ updated' = updated \o Addition(candidate.token)
    /\ usage' = [usage EXCEPT ![candidate.token] = @ + 1]
    /\ per_bullet' = [per_bullet EXCEPT ![candidate.token] = @ + 1]
    /\ inserted' = [inserted EXCEPT ![candidate.token] = @ + 1]
    /\ kidx' = kidx + 1
    /\ UNCHANGED <<inputs, lines, bullets, before_counts, idx, original, pc,
                   optimized_tex, keyword_map, recorded,
                   before, after, svars, evars, pvars>>

\* lines 133-147: no synonym replaced and the policy is strict
NoEdit ==
    /\ NeedsEdit
    /\ ~Attempt.replaced
    /\ ~(~strict /\ usage[candidate.token] < UsageCap)
    /\ kidx' = kidx + 1
    /\ UNCHANGED <<inputs, lines, bullets, usage, before_counts, idx, original, updated,
                   per_bullet, pc, optimized_tex, keyword_map, inserted, recorded,
                   before, after, svars, evars, pvars>>

\* lines 153-156
EndBullet ==
    /\ pc = "keyword"
    /\ kidx > Len(keywords)
    /\ LET final == FinalContent(updated, original, strict)
       IN  /\ updated' = final
           /\ IF final # original
              THEN /\ lines' = replace_bullet_lines(lines, bullets[idx], final)
                   /\ bullets' = replace_bullet_bullets(bullets, idx, final)
              ELSE UNCHANGED <<lines, bullets>>
    /\ idx' = idx + 1
    /\ pc' = "bullet"
    /\ UNCHANGED <<inputs, usage, before_counts, kidx, original, per_bullet,
                   optimized_tex, keyword_map, inserted, recorded,
                   before, after, svars, evars, pvars>>

\* lines 158-165
Render ==
    /\ pc = "bullet"
    /\ idx > Len(bullets)
    /\ optimized_tex' = render(lines)
    /\ keyword_map' = [t \in Tokens(keywords) |->
                          [before |-> before_counts[t],
                           after |-> Count(Lower(render(lines)), t)]]
    /\ pc' = "done"
    /\ UNCHANGED <<inputs, lines, bullets, usage, before_counts, idx, kidx, original,
                   updated, per_bullet, inserted, recorded,
                   before, after, svars, evars, pvars>>

\* ATSScorer.score on the document parsed from `text`, as _optimize calls it
ScoreOf(text) ==
    LET document == parse_document(text)
    IN  score(text, bullet_texts(document.bullets), keywords,
              Range(section_names(document.sections)), page_estimate(document.lines))

\* cli/resume_opt.py, _optimize: the scores before and after the rewrite
ScoreBeforeAfter ==
    /\ pc = "done"
    /\ before' = ScoreOf(tex_content)
    /\ after' = ScoreOf(optimized_tex)
    /\ pc' = "scored"
    /\ UNCHANGED <<inputs, lines, bullets, usage, before_counts, idx, kidx, original,
                   updated, per_bullet, optimized_tex, keyword_map, inserted, recorded,
                   svars, evars, pvars>>

RewriteNext ==
    \/ OpenAIRewrite
    \/ StartDeterministic
    \/ SkipCapped
    \/ RecordExisting
    \/ Substitute
    \/ AppendSuffix
    \/ NoEdit
    \/ EndBullet
    \/ Render
    \/ ScoreBeforeAfter

SpecRewrite == RewriteInit /\ [][RewriteNext]_vars

-----------------------------------------------------------------------------
(* extract_keywords and extract_keywords_openai as a state machine over    *)
(* the call stack: one step per call, per return and per unwound frame     *)

MaxWords == 3
MaxKeywordsArg == 2
\* the interpreter's recursion limit (sys.getrecursionlimit()), scaled down
RecursionLimit == 6

The == <<"t", "h", "e">>
CapPython == <<"P", "y", "t", "h", "o", "n">>
WordInputs == {Python, CapPython, Testing, The}

\* the words separated by single spaces
RECURSIVE JoinWords(_)
JoinWords(ws) ==
    IF Len(ws) = 0 THEN <<>>
    ELSE IF Len(ws) = 1 THEN ws[1]
    ELSE ws[1] \o <<" ">> \o JoinWords(Tail(ws))

\* " Python " as the service may spell a keyword
SpacedPython == <<" ", "P", "y", "t", "h", "o", "n", " ">>

\* the arrays the service may answer with
PayloadInputs ==
    { <<>>,
      <<Item(Python, <<Pandas>>, 95)>>,
      <<Item(SpacedPython, <<>>, 90), Item(Python, <<Pandas>>, 80), Item(Testing, <<>>, 50)>>,
      <<Item(The, <<>>, 50), Item(<<>>, <<>>, 50), Item(Testing, <<>>, 50)>> }

Frame(fn, flag) == [fn |-> fn, use_openai |-> flag]

Top == stack[Len(stack)]
Pop == SubSeq(stack, 1, Len(stack) - 1)

ExtractInit ==
    /\ \E ws \in SeqsUpTo(WordInputs, MaxWords) : job_text = JoinWords(ws)
    /\ max_keywords \in 0..MaxKeywordsArg
    /\ api_key \in BOOLEAN
    /\ has_openai \in BOOLEAN
    \* the caller's call: extract_keywords(text, max_keywords=n[, use_openai=False])
    /\ use_openai_arg \in BOOLEAN
    /\ stack = <<Frame("extract_keywords", use_openai_arg)>>
    /\ status = "running"
    /\ result = <<>>
    /\ served = FALSE
    /\ answer = <<>>
    /\ RewriteIdle
    /\ ScoreIdle
    /\ PipelineIdle

\* a call: a new frame, or RecursionError when the stack is full
Call(frame) ==
    IF Len(stack) < RecursionLimit
    THEN stack' = Append(stack, frame) /\ UNCHANGED status
    ELSE status' = "raising" /\ UNCHANGED stack

\* `return <list>` of the innermost frame
ReturnList(list) ==
    /\ result' = list
    /\ stack' = Pop
    /\ status' = IF Len(stack) = 1 THEN "returned" ELSE "returning"

einputs == <<job_text, max_keywords, use_openai_arg, api_key, has_openai>>

\* extract_keywords, lines 140-141: return extract_keywords_openai(text, max_keywords=...)
Delegate ==
    /\ status = "running"
    /\ Top.fn = "extract_keywords"
    /\ Top.use_openai
    /\ Call(Frame("extract_keywords_openai", TRUE))
    /\ UNCHANGED <<einputs, result, served, answer, rvars, svars, pvars>>

\* extract_keywords, lines 143-182: the frequency strategy
Basic ==
    /\ status = "running"
    /\ Top.fn = "extract_keywords"
    /\ ~Top.use_openai
    /\ ReturnList(FrequencyStrategy(job_text, max_keywords))
    /\ UNCHANGED <<einputs, served, answer, rvars, svars, pvars>>

\* extract_keywords_openai, lines 74-77: no key or no client library;
\* extract_keywords is called with use_openai left at its default, True
FallbackUnavailable ==
    /\ status = "running"
    /\ Top.fn = "extract_keywords_openai"
    /\ ~api_key \/ ~has_openai
    /\ Call(Frame("extract_keywords", TRUE))
    /\ UNCHANGED <<einputs, result, served, answer, rvars, svars, pvars>>

\* extract_keywords_openai, lines 79-125: the service answers with a JSON array
ServiceAnswers ==
    /\ status = "running"
    /\ Top.fn = "extract_keywords_openai"
    /\ api_key /\ has_openai
    /\ \E keywords_data \in PayloadInputs :
          /\ ReturnList(Take(Candidates(keywords_data), max_keywords))
          /\ answer' = keywords_data
    /\ served' = TRUE
    /\ UNCHANGED <<einputs, rvars, svars, pvars>>

\* extract_keywords_openai, lines 95-111 and 127-129: the request raises or the
\* answer does not parse; the handler calls extract_keywords with use_openai
\* left at its default, True
ServiceFails ==
    /\ status = "running"
    /\ Top.fn = "extract_keywords_openai"
    /\ api_key /\ has_openai
    /\ \E failure \in {"request raises", "answer does not parse"} :
          Call(Frame("extract_keywords", TRUE))
    /\ UNCHANGED <<einputs, result, served, answer, rvars, svars, pvars>>

\* a frame whose `return callee(...)` has its value returns it
Return ==
    /\ status = "returning"
    /\ stack' = Pop
    /\ status' = IF Len(stack) = 1 THEN "returned" ELSE "returning"
    /\ UNCHANGED <<einputs, result, served, answer, rvars, svars, pvars>>

\* RecursionError leaves a frame: no frame is inside a try block when it calls
\* (line 77 is before the try, line 129 is in the handler)
Unwind ==
    /\ status = "raising"
    /\ stack' = Pop
    /\ status' = IF Len(stack) = 1 THEN "raised" ELSE "raising"
    /\ UNCHANGED <<einputs, result, served, answer, rvars, svars, pvars>>

ExtractNext ==
    \/ Delegate
    \/ Basic
    \/ FallbackUnavailable
    \/ ServiceAnswers
    \/ ServiceFails
    \/ Return
    \/ Unwind

SpecExtract == ExtractInit /\ [][ExtractNext]_vars

-----------------------------------------------------------------------------
(* ats/scorer.py: one call of ATSScorer.score                              *)

MaxCopies == 8
MaxScoreKeywords == 2

\* "fixed testing python python": no action verb, short, mixed tense, a keyword twice
BulletFixed == <<"f", "i", "x", "e", "d", " ", "t", "e", "s", "t", "i", "n", "g", " ", "p", "y", "t", "h", "o", "n", " ", "p", "y", "t", "h", "o", "n">>
\* "Built python and pandas jobs for the k8s team": an action verb, 45 characters
BulletBuilt == <<"B", "u", "i", "l", "t", " ", "p", "y", "t", "h", "o", "n", " ", "a", "n", "d", " ", "p", "a", "n", "d", "a", "s", " ", "j", "o", "b", "s", " ", "f", "o", "r", " ", "t", "h", "e", " ", "k", "8", "s", " ", "t", "e", "a", "m">>

Experience == <<"E", "x", "p", "e", "r", "i", "e", "n", "c", "e">>
Education == <<"e", "d", "u", "c", "a", "t", "i", "o", "n">>
Skills == <<"S", "k", "i", "l", "l", "s">>
Projects == <<"P", "r", "o", "j", "e", "c", "t", "s">>

SectionInputs ==
    { {}, {Skills}, {Experience, Education, Skills}, {Experience, Education, Skills, Projects} }

ScoreCandidates ==
    { KeywordCandidate(Python, 4, <<Pandas>>),
      KeywordCandidate(Kubernetes, 2, <<K8s>>),
      KeywordCandidate(Testing, 2, <<>>) }

Copies(b, n) == [i \in 1..n |-> b]

\* the bullet lists: up to MaxCopies of BulletFixed, then BulletBuilt or not
BulletTextInputs ==
    { Copies(BulletFixed, m) \o Copies(BulletBuilt, n) : m \in 0..MaxCopies, n \in 0..1 }

ScoreInit ==
    /\ \E texts \in BulletTextInputs :
       \E resume_text \in {<<>>, ResumeText(texts)} :
       \E kws \in SeqsUpTo(ScoreCandidates, MaxScoreKeywords) :
       \E sections_present \in SectionInputs :
       \E pages \in max_pages..(max_pages + 1) :
          sc_args = [resume_text |-> resume_text, bullet_texts |-> texts, keywords |-> kws,
                     sections_present |-> sections_present, page_estimate |-> pages]
    /\ breakdown = NoBreakdown
    /\ previous = NoBreakdown
    /\ RewriteIdle
    /\ ExtractIdle
    /\ PipelineIdle

\* ATSScorer.score, lines 53-80
Score ==
    /\ breakdown = NoBreakdown
    /\ breakdown' = score(sc_args.resume_text, sc_args.bullet_texts, sc_args.keywords,
                          sc_args.sections_present, sc_args.page_estimate)
    /\ UNCHANGED <<sc_args, previous, rvars, evars, pvars>>

ScoreNext == Score

SpecScore == ScoreInit /\ [][ScoreNext]_vars

-----------------------------------------------------------------------------
(* ats/scorer.py: two calls of ATSScorer.score, the resume revised between  *)
(* them and the other arguments kept                                        *)

MaxCoverageKeywords == 3

\* "python testing", a bigram as the frequency strategy ranks one
PythonTesting == Python \o <<" ">> \o Testing

CoverageCandidates ==
    { KeywordCandidate(PythonTesting, 3, <<>>),
      KeywordCandidate(Python, 4, <<Pandas>>),
      KeywordCandidate(Kubernetes, 2, <<K8s>>) }

CoverageTexts == { <<>>, PythonTesting, K8s }

CoverageInit ==
    /\ \E resume_text \in CoverageTexts :
       \E kws \in SeqsUpTo(CoverageCandidates, MaxCoverageKeywords) :
          sc_args = [resume_text |-> resume_text, bullet_texts |-> <<>>, keywords |-> kws,
                     sections_present |-> {}, page_estimate |-> 1]
    /\ breakdown = NoBreakdown
    /\ previous = NoBreakdown
    /\ RewriteIdle
    /\ ExtractIdle
    /\ PipelineIdle

\* _coverage_score, lines 87-92: neither the token nor a synonym is in the text
Unmatched(resume_text, cand) ==
    LET text == Lower(resume_text)
    IN  /\ ~Contains(text, cand.token)
        /\ \A syn \in SynonymSet(cand) : ~Contains(text, syn)

\* s with w inserted at 0-based offset p
InsertAt(s, w, p) == Slice(s, 0, p) \o w \o Slice(s, p, Len(s))

\* between two calls, the caller inserts into resume_text an occurrence of the
\* token or of a synonym of a keyword the text does not match
InsertOccurrence ==
    /\ breakdown # NoBreakdown
    /\ previous = NoBreakdown
    /\ \E i \in 1..Len(sc_args.keywords) :
          /\ Unmatched(sc_args.resume_text, sc_args.keywords[i])
          /\ \E w \in {sc_args.keywords[i].token} \cup SynonymSet(sc_args.keywords[i]) :
             \E p \in 0..Len(sc_args.resume_text) :
                sc_args' = [sc_args EXCEPT !.resume_text = InsertAt(@, w, p)]
    /\ previous' = [args |-> sc_args, breakdown |-> breakdown]
    /\ breakdown' = NoBreakdown
    /\ UNCHANGED <<rvars, evars, pvars>>

CoverageNext ==
    \/ Score
    \/ InsertOccurrence

SpecCoverage == CoverageInit /\ [][CoverageNext]_vars

-----------------------------------------------------------------------------
(* optimize_resume on documents whose \item lines carry an optional        *)
(* [label] argument or extra spacing                                       *)

\* "[$\bullet$]"
BulletLabel == <<"[", "$", "\\", "b", "u", "l", "l", "e", "t", "$", "]">>

\* what stands before the content of an \item line: the layout replace_bullet
\* writes, a label, extra spacing
ItemLayouts ==
    { ItemLead \o ITEM \o <<" ">>,
      ItemLead \o ITEM \o BulletLabel \o <<" ">>,
      ItemLead \o ITEM \o <<" ", " ", " ">> }

\* the resume of BulletLed and BulletRan, each after one of the layouts
LayoutText(first, second) ==
    JoinLines(<<SectionLine, BeginItemize, first \o BulletLed, second \o BulletRan, EndItemize>>)

LayoutInit ==
    /\ \E first \in ItemLayouts, second \in ItemLayouts :
          LET text == LayoutText(first, second)
              document == parse_document(text)
          IN  /\ tex_content = text
              /\ lines = document.lines
              /\ bullets = document.bullets
    /\ \E kws \in SeqsUpTo(CandidateInputs, MaxKeywords) :
          LET zero == [t \in Tokens(kws) |-> 0]
              counts == TokenCounts(kws, tex_content)
              orders == SynOrders(kws)
          IN  /\ keywords = kws
              /\ usage = zero
              /\ per_bullet = zero
              /\ inserted = zero
              /\ recorded = zero
              /\ before_counts = counts
              /\ synOrder \in orders
    /\ strict \in BOOLEAN
    /\ \E mode \in {"off", "noclient", "client"} :
          /\ use_openai = (mode # "off")
          /\ client = (mode = "client")
    /\ idx = 1
    /\ kidx = 1
    /\ original = <<>>
    /\ updated = <<>>
    /\ pc = "bullet"
    /\ optimized_tex = <<>>
    /\ keyword_map = <<>>
    /\ before = "none"
    /\ after = "none"
    /\ ScoreIdle
    /\ ExtractIdle
    /\ PipelineIdle

\* lines 110-121 with the service free to answer in two lines as well
OpenAIRewriteLines == OpenAIRewriteOf(AIOutcomesLines)

LayoutNext ==
    \/ OpenAIRewriteLines
    \/ StartDeterministic
    \/ SkipCapped
    \/ RecordExisting
    \/ Substitute
    \/ AppendSuffix
    \/ NoEdit
    \/ EndBullet
    \/ Render
    \/ ScoreBeforeAfter

SpecLayout == LayoutInit /\ [][LayoutNext]_vars

-----------------------------------------------------------------------------
(* optimize_resume on three bullets and keywords that compete: two edits   *)
(* for one strict budget, three bullets for one cap, one token inside      *)
(* another                                                                 *)

\* qa -> testing (+5) and k8s -> kubernetes (+7) fit the strict budget of
\* BulletRan one at a time, not together
OrderCandidates ==
    { KeywordCandidate(Testing, 2, <<>>),
      KeywordCandidate(Kubernetes, 2, <<K8s>>),
      KeywordCandidate(PythonTesting, 3, <<>>) }

OrderTexts == { <<BulletRan, BulletRan, BulletRan>>, <<BulletLed, BulletRan, BulletLed>> }

OrderInit ==
    /\ \E contents \in OrderTexts :
          LET text == ResumeText(contents)
              document == parse_document(text)
          IN  /\ tex_content = text
              /\ lines = document.lines
              /\ bullets = document.bullets
    /\ \E kws \in SeqsUpTo(OrderCandidates, MaxKeywords) :
          LET zero == [t \in Tokens(kws) |-> 0]
              counts == TokenCounts(kws, tex_content)
              orders == SynOrders(kws)
          IN  /\ keywords = kws
              /\ usage = zero
              /\ per_bullet = zero
              /\ inserted = zero
              /\ recorded = zero
              /\ before_counts = counts
              /\ synOrder \in orders
    /\ strict \in BOOLEAN
    /\ \E mode \in {"off", "noclient", "client"} :
          /\ use_openai = (mode # "off")
          /\ client = (mode = "client")
    /\ idx = 1
    /\ kidx = 1
    /\ original = <<>>
    /\ updated = <<>>
    /\ pc = "bullet"
    /\ optimized_tex = <<>>
    /\ keyword_map = <<>>
    /\ before = "none"
    /\ after = "none"
    /\ ScoreIdle
    /\ ExtractIdle
    /\ PipelineIdle

SpecOrder == OrderInit /\ [][RewriteNext]_vars

-----------------------------------------------------------------------------
(* optimize_resume on bullets that try the synonym substitution: two       *)
(* synonyms of one keyword, a synonym next to a backslash, a text whose     *)
(* lower-case form is longer, and a service that answers with the bullet    *)
(* followed by " (python)"                                                  *)

\* "Led numpy pandas jobs."
BulletTwo == <<"L", "e", "d", " ", "n", "u", "m", "p", "y", " ", "p", "a", "n", "d", "a", "s", " ", "j", "o", "b", "s", ".">>

\* "Led pandas\_numpy jobs."
BulletMacro == <<"L", "e", "d", " ", "p", "a", "n", "d", "a", "s", "\\", "_", "n", "u", "m", "p", "y", " ", "j", "o", "b", "s", ".">>

\* "<U+0130>zmir pandas jobs."
BulletDotted == <<DotI>> \o <<"z", "m", "i", "r", " ", "p", "a", "n", "d", "a", "s", " ", "j", "o", "b", "s", ".">>

SubstituteBullets == {BulletLed, BulletTwo, BulletMacro, BulletDotted}

SubstituteCandidates ==
    { KeywordCandidate(Python, 4, <<Pandas>>),
      KeywordCandidate(Kubernetes, 2, <<K8s>>) }

\* "Led pandas jobs. (python)"
AnswerSuffix == BulletLed \o Addition(Python)

AIOutcomesSuffix == AIOutcomes \cup {Answer(AnswerSuffix)}

SubstituteInit ==
    /\ \E first \in SubstituteBullets, second \in SubstituteBullets :
          LET text == ResumeText(<<first, second>>)
              document == parse_document(text)
          IN  /\ tex_content = text
              /\ lines = document.lines
              /\ bullets = document.bullets
    /\ \E kws \in SeqsUpTo(SubstituteCandidates, MaxKeywords) :
          LET zero == [t \in Tokens(kws) |-> 0]
              counts == TokenCounts(kws, tex_content)
              orders == SynOrders(kws)
          IN  /\ keywords = kws
              /\ usage = zero
              /\ per_bullet = zero
              /\ inserted = zero
              /\ recorded = zero
              /\ before_counts = counts
              /\ synOrder \in orders
    /\ strict \in BOOLEAN
    /\ \E mode \in {"off", "noclient", "client"} :
          /\ use_openai = (mode # "off")
          /\ client = (mode = "client")
    /\ idx = 1
    /\ kidx = 1
    /\ original = <<>>
    /\ updated = <<>>
    /\ pc = "bullet"
    /\ optimized_tex = <<>>
    /\ keyword_map = <<>>
    /\ before = "none"
    /\ after = "none"
    /\ ScoreIdle
    /\ ExtractIdle
    /\ PipelineIdle

\* lines 110-121 with the service free to answer AnswerSuffix as well
OpenAIRewriteSuffix == OpenAIRewriteOf(AIOutcomesSuffix)

SubstituteNext ==
    \/ OpenAIRewriteSuffix
    \/ StartDeterministic
    \/ SkipCapped
    \/ RecordExisting
    \/ Substitute
    \/ AppendSuffix
    \/ NoEdit
    \/ EndBullet
    \/ Render
    \/ ScoreBeforeAfter

SpecSubstitute == SubstituteInit /\ [][SubstituteNext]_vars

-----------------------------------------------------------------------------
(* cli/resume_opt.py: the pipeline command over the harvested postings. A   *)
(* posting stands for the total that _optimize finds for it after the      *)
(* rewrite (after.total, in hundredths); every call of _optimize writes    *)
(* its artifacts to the same five paths of output_dir.                     *)

MaxPostings == 3

\* after.total of a posting: values of ScoreBreakdown.total
PostingTotals == {6000, 7640, 7800}

\* --ats-threshold: between the totals, and above all of them
Thresholds == {7700, 9900}

\* lines 107-120: the dict _optimize returns for posting i
OptimizeResult(i) ==
    [posting |-> i, total |-> postings[i],
     meets_threshold |-> postings[i] >= ats_threshold]

PipelineInit ==
    /\ postings \in SeqsUpTo(PostingTotals, MaxPostings)
    /\ ats_threshold \in Thresholds
    /\ posting_idx = 1
    /\ best_result = NoResult
    /\ files = [path \in ArtifactPaths |-> 0]
    /\ optimized = <<>>
    /\ exit_code = "none"
    /\ ppc = "loop"
    /\ RewriteIdle
    /\ ScoreIdle
    /\ ExtractIdle

\* lines 184-207 with a later result preferred among equal totals
OptimizePostingLatest ==
    /\ ppc = "loop"
    /\ posting_idx <= Len(postings)
    /\ LET result_ == OptimizeResult(posting_idx)
       IN  /\ files' = [path \in ArtifactPaths |-> posting_idx]
           /\ optimized' = Append(optimized, posting_idx)
           /\ IF result_.meets_threshold
              THEN /\ best_result' = result_
                   /\ ppc' = "after"
              ELSE /\ best_result' = IF best_result = NoResult
                                        \/ result_.total >= best_result.total
                                     THEN result_ ELSE best_result
                   /\ ppc' = ppc
    /\ posting_idx' = posting_idx + 1
    /\ UNCHANGED <<postings, ats_threshold, exit_code, rvars, svars, evars>>

\* lines 184-207: one pass of the loop body; _optimize (lines 78-105) writes
\* the five artifacts of this posting, line 205 leaves the loop
OptimizePosting ==
    /\ ppc = "loop"
    /\ posting_idx <= Len(postings)
    /\ LET result_ == OptimizeResult(posting_idx)
       IN  /\ files' = [path \in ArtifactPaths |-> posting_idx]
           /\ optimized' = Append(optimized, posting_idx)
           /\ IF result_.meets_threshold
              THEN /\ best_result' = result_
                   /\ ppc' = "after"
              ELSE /\ best_result' = IF best_result = NoResult
                                        \/ result_.total > best_result.total
                                     THEN result_ ELSE best_result
                   /\ ppc' = ppc
    /\ posting_idx' = posting_idx + 1
    /\ UNCHANGED <<postings, ats_threshold, exit_code, rvars, svars, evars>>

\* line 184: the postings are exhausted
LoopExhausted ==
    /\ ppc = "loop"
    /\ posting_idx > Len(postings)
    /\ ppc' = "after"
    /\ UNCHANGED <<postings, ats_threshold, posting_idx, best_result, files, optimized,
                   exit_code, rvars, svars, evars>>

\* lines 209-210: raise typer.Exit(code=1)
ExitWithoutResult ==
    /\ ppc = "after"
    /\ best_result = NoResult
    /\ exit_code' = 1
    /\ ppc' = "done"
    /\ UNCHANGED <<postings, ats_threshold, posting_idx, best_result, files, optimized,
                   rvars, svars, evars>>

\* lines 212-214: the paths of best_result are printed, the command returns
PrintArtifacts ==
    /\ ppc = "after"
    /\ best_result # NoResult
    /\ exit_code' = 0
    /\ ppc' = "done"
    /\ UNCHANGED <<postings, ats_threshold, posting_idx, best_result, files, optimized,
                   rvars, svars, evars>>

PipelineNext ==
    \/ OptimizePosting
    \/ LoopExhausted
    \/ ExitWithoutResult
    \/ PrintArtifacts

SpecPipeline == PipelineInit /\ [][PipelineNext]_vars

-----------------------------------------------------------------------------
(* Two calls of ATSScorer.score for two resumes, the keywords, sections    *)
(* and page estimate being the same (tests/test_scorer.py)                 *)

StuffedCopies == 4

\* "Led pandas k8s jobs.": BulletLed with one more synonym
BulletLedBoth == <<"L", "e", "d", " ", "p", "a", "n", "d", "a", "s", " ", "k", "8", "s", " ", "j", "o", "b", "s", ".">>

\* the bullet lists of the resumes compared
CompareTexts ==
    { <<>>, <<BulletLed>>, <<BulletLedBoth>>, <<BulletBuilt>>, <<BulletFixed>>,
      Copies(BulletFixed, StuffedCopies) }

CompareInit ==
    /\ \E texts \in CompareTexts :
       \E kws \in SeqsUpTo(ScoreCandidates, MaxScoreKeywords) :
          sc_args = [resume_text |-> ResumeText(texts), bullet_texts |-> texts, keywords |-> kws,
                     sections_present |-> {Experience, Education, Skills},
                     page_estimate |-> 1]
    /\ breakdown = NoBreakdown
    /\ previous = NoBreakdown
    /\ RewriteIdle
    /\ ExtractIdle
    /\ PipelineIdle

\* the second resume of the comparison takes the place of the first
OtherResume ==
    /\ breakdown # NoBreakdown
    /\ previous = NoBreakdown
    /\ \E texts \in CompareTexts \ {sc_args.bullet_texts} :
          sc_args' = [sc_args EXCEPT !.resume_text = ResumeText(texts),
                                     !.bullet_texts = texts]
    /\ previous' = [args |-> sc_args, breakdown |-> breakdown]
    /\ breakdown' = NoBreakdown
    /\ UNCHANGED <<rvars, evars, pvars>>

CompareNext == Score \/ OtherResume

SpecCompare == CompareInit /\ [][CompareNext]_vars

-----------------------------------------------------------------------------
(* One call of ATSScorer.score over every set of section names             *)

TechnicalSkills == <<"T", "e", "c", "h", "n", "i", "c", "a", "l", " ", "S", "k", "i", "l", "l", "s">>

SectionNames == {Experience, Education, Skills, Projects, TechnicalSkills}

SectionInit ==
    /\ \E sections_present \in SUBSET SectionNames :
       \E pages \in 1..(max_pages + 1) :
          sc_args = [resume_text |-> <<>>, bullet_texts |-> <<>>, keywords |-> <<>>,
                     sections_present |-> sections_present, page_estimate |-> pages]
    /\ breakdown = NoBreakdown
    /\ previous = NoBreakdown
    /\ RewriteIdle
    /\ ExtractIdle
    /\ PipelineIdle

SpecSection == SectionInit /\ [][ScoreNext]_vars

-----------------------------------------------------------------------------
(* Properties of the rewriter (SpecRewrite)                                *)

\* the bullets as parse_document found them in tex_content
OriginalBullets == parse_document(tex_content).bullets

\* C1: under the strict policy the content of every bullet after
\* optimize_resume differs in length from its original content by at most 10
\* characters, whether a synonym substitution or an accepted external rewrite
\* edited it.
C1_StrictLengthBudget ==
    (pc = "done" /\ strict) =>
        \A i \in 1..Len(bullets) :
            Abs(Len(bullets[i].content) - Len(OriginalBullets[i].content)) <= LengthBudget

\* a strict run has finished and has changed the length of a bullet
C1_Witness ==
    /\ pc = "done"
    /\ strict
    /\ \E i \in 1..Len(bullets) : Len(bullets[i].content) # Len(OriginalBullets[i].content)

\* C4: at every point of a rewrite run the ledger's count for each keyword is
\* at most 2.
C4_LedgerAtMostTwo == \A t \in DOMAIN usage : usage[t] <= UsageCap

\* C5: the deterministic rewriter makes no substitution and no append for a
\* keyword whose ledger count is already 2 or more, a capped keyword leaves the
\* bullet and the ledger as they are, and so at most 2 edits are made per
\* keyword per run.
C5_NoEditOnceCapped ==
    /\ [](\A t \in DOMAIN inserted : inserted[t] <= UsageCap)
    /\ [][/\ \A t \in DOMAIN inserted : inserted'[t] # inserted[t] => usage[t] < UsageCap
          /\ (AtCandidate /\ usage[candidate.token] >= UsageCap) =>
                 (updated' = updated /\ usage' = usage /\ kidx' = kidx + 1)]_vars

\* a capped keyword is being skipped in a bullet where a synonym of it could
\* have been replaced
C5_Witness ==
    /\ AtCandidate
    /\ usage[candidate.token] >= UsageCap
    /\ per_bullet[candidate.token] = 0
    /\ Attempt.replaced

\* C6: the total score of the rewritten document is not lower than the total
\* score of the original document, in strict and in non-strict mode.
C6_ScoreNotLowered == pc = "scored" => after.total >= before.total

-----------------------------------------------------------------------------
(* Properties of extract_keywords (SpecExtract)                            *)

\* the call has ended, with a list or with an exception
Finished == status \in {"returned", "raised"}

\* the external strategy produced no ranking during the call
NoRanking == use_openai_arg /\ ~served

\* C2: whenever the external strategy cannot produce a ranking (no key, no
\* client library, the request raises, the answer does not parse),
\* extract_keywords returns exactly the list of the frequency strategy for the
\* same text and max_keywords, and no error reaches the caller.
C2_FallbackToFrequency ==
    (Finished /\ NoRanking) =>
        /\ status = "returned"
        /\ result = FrequencyStrategy(job_text, max_keywords)

\* C3: every call extract_keywords(text, max_keywords=n) made with the default
\* arguments terminates and returns a list, in every availability state of the
\* service.  The interpreter bounds the stack, so a call always ends; the claim
\* is that it ends with a list and not with an exception.
C3_DefaultCallReturnsList == use_openai_arg => status # "raised"

\* C8: the frequency strategy returns at most max_keywords candidates, so an
\* empty list when max_keywords = 0.
C8_AtMostMaxKeywords ==
    (status = "returned" /\ ~use_openai_arg) => Len(result) <= max_keywords

\* C9: a list returned by extract_keywords, by either strategy, has no two
\* candidates with the same token.
C9_TokensUnique ==
    status = "returned" =>
        \A i, j \in 1..Len(result) : result[i].token = result[j].token => i = j

\* the call has returned the list of the frequency strategy
FrequencyReturned == status = "returned" /\ ~use_openai_arg

\* the reference ranking of job_text: its filtered tokens, their adjacent pairs,
\* and for each the score (in halves) and the first-seen index
RefTokens == normalise(job_text)
RefBigrams == _ngram2(RefTokens)
RefCandidates == Range(RefTokens) \cup Range(RefBigrams)
RefScore(t) ==
    IF t \in Range(RefTokens) THEN 2 * Occurrences(RefTokens, t)
    ELSE 2 * Occurrences(RefBigrams, t) + 1
RefSeen(t) ==
    IF t \in Range(RefTokens) THEN FirstIndex(RefTokens, t)
    ELSE Len(RefTokens) + FirstIndex(RefBigrams, t)
RefBefore(a, b) ==
    RefScore(a) > RefScore(b) \/ (RefScore(a) = RefScore(b) /\ RefSeen(a) < RefSeen(b))

\* C10: the output of the frequency strategy is the reference ranking: every
\* listed candidate is a unigram scoring its count or a bigram scoring its count
\* plus 0.5, the list is in descending score with ties broken by the earlier
\* first-seen index, every candidate left out ranks after every listed one, and
\* the first candidate is the earliest-seen one of maximum score.
C10_ReferenceRanking ==
    FrequencyReturned =>
        /\ \A i \in 1..Len(result) :
              /\ result[i].token \in RefCandidates
              /\ result[i].score = RefScore(result[i].token)
        /\ \A i, j \in 1..Len(result) :
              i < j => RefBefore(result[i].token, result[j].token)
        /\ \A t \in RefCandidates :
              (\A i \in 1..Len(result) : result[i].token # t) =>
                  \A i \in 1..Len(result) : RefBefore(result[i].token, t)
        /\ (RefCandidates # {} /\ max_keywords >= 1) =>
              /\ Len(result) >= 1
              /\ \A t \in RefCandidates \ {result[1].token} : RefBefore(result[1].token, t)

\* the frequency strategy has listed a bigram before a unigram of the same count
C10_Witness ==
    /\ FrequencyReturned
    /\ \E i, j \in 1..Len(result) :
          /\ i < j
          /\ result[i].token \in Range(RefBigrams)
          /\ result[j].token \in Range(RefTokens)
          /\ result[i].score = result[j].score + 1

-----------------------------------------------------------------------------
(* Properties of ATSScorer.score (SpecScore)                               *)

\* score() has returned
Scored == breakdown # NoBreakdown

\* C7: for every input to score(), each of coverage, section, quality and
\* distribution lies in [0, 100], and total is 0.4*coverage + 0.2*section +
\* 0.2*quality + 0.2*distribution rounded to 2 decimals (scores in hundredths:
\* ten times the total is within half a hundredth of the weighted sum).
C7_ScoresInRange ==
    Scored =>
        /\ \A part \in {"coverage", "section", "quality", "distribution"} :
              breakdown[part] \in 0..10000
        /\ 10 * breakdown.total
             - (4 * breakdown.coverage + 2 * breakdown.section
                  + 2 * breakdown.quality + 2 * breakdown.distribution) \in -5..5

\* score() has returned for bullets whose penalties exceed the base of quality
\* and of distribution: both are held at 0, and the total is not
C7_Witness ==
    /\ Scored
    /\ breakdown.quality = 0
    /\ breakdown.distribution = 0
    /\ breakdown.total > 0

-----------------------------------------------------------------------------
(* Properties of extract_keywords, continued (SpecExtract)                 *)

\* the list was built from an answer of the service that holds no usable keyword
EmptyPayload == served /\ Candidates(answer) = <<>>

\* C11: an empty payload of the service (a well-formed answer with no usable
\* keyword) is handled like a transport error: extract_keywords returns the
\* ranking of the frequency strategy for the text, not an empty list (stated for
\* a positive max_keywords, where an empty list is not what was asked for).
C11_EmptyPayloadFallsBack ==
    (status = "returned" /\ EmptyPayload /\ max_keywords >= 1) =>
        result = FrequencyStrategy(job_text, max_keywords)

-----------------------------------------------------------------------------
(* Properties of two calls of ATSScorer.score (SpecCoverage)               *)

\* score() has returned for a resume_text revised since the call before
Rescored == breakdown # NoBreakdown /\ previous # NoBreakdown

\* the earlier resume_text is the start or the end of the present one
InsertedAtAnEnd ==
    LET old == previous.args.resume_text
        new == sc_args.resume_text
    IN  \/ Slice(new, 0, Len(old)) = old
        \/ Slice(new, Len(new) - Len(old), Len(new)) = old

-----------------------------------------------------------------------------
(* Properties of ATSScorer.score, continued (SpecScore)                    *)

\* C13: with an empty keyword list score() returns coverage = 100 and
\* distribution = 100, for every resume text and every bullet list, the empty
\* ones included.
C13_EmptyKeywordsFullMarks ==
    (Scored /\ sc_args.keywords = <<>>) =>
        /\ breakdown.coverage = 10000
        /\ breakdown.distribution = 10000

\* score() has returned for an empty keyword list and a resume whose bullets
\* repeat a word often enough to bring their quality to 0
C13_Witness ==
    /\ Scored
    /\ sc_args.keywords = <<>>
    /\ sc_args.resume_text # <<>>
    /\ breakdown.quality = 0

\* the required sections that sections_present lacks, whatever the case of
\* its names
MissingSections ==
    {r \in REQUIRED_SECTIONS : ~ \E name \in sc_args.sections_present : Lower(name) = r}

PagePenalty == IF sc_args.page_estimate > max_pages THEN 2000 ELSE 0

\* C14: the section score is max(0, 100 - 20 per required section (experience,
\* education, skills) absent from sections_present, compared case-insensitively,
\* - 20 if page_estimate exceeds the page limit); it is 100 with all three
\* present and page_estimate = 1, and 80 with exactly one of them missing.
C14_SectionScore ==
    Scored =>
        /\ breakdown.section =
              Max(0, 10000 - 2000 * Cardinality(MissingSections) - PagePenalty)
        /\ (MissingSections = {} /\ sc_args.page_estimate = 1) => breakdown.section = 10000
        /\ (Cardinality(MissingSections) = 1 /\ sc_args.page_estimate = 1) =>
              breakdown.section = 8000

\* score() has returned 80 for one page and the sections Experience and
\* education (one capitalised) with another heading that is not a required one
C14_Witness ==
    /\ Scored
    /\ sc_args.page_estimate = 1
    /\ sc_args.sections_present = {Experience, Education, TechnicalSkills}
    /\ breakdown.section = 8000

-----------------------------------------------------------------------------
(* Properties of two score() calls for two resumes (SpecCompare)           *)

\* the keywords of the list that the resume text contains, by token or synonym
Contained(args) ==
    {i \in 1..Len(args.keywords) : ~Unmatched(args.resume_text, args.keywords[i])}

\* both resumes are scored and the second contains more of the keywords
MoreKeywords ==
    /\ Rescored
    /\ Cardinality(Contained(sc_args)) > Cardinality(Contained(previous.args))

\* C15 as stated: with keywords, sections_present and page_estimate fixed, the
\* resume that contains more of the keywords has the strictly higher total.
C15_MoreKeywordsHigherTotal ==
    MoreKeywords => breakdown.total > previous.breakdown.total

\* C15, amended: the resume that contains more of the keywords has the strictly
\* higher coverage, and the strictly higher total whenever its quality and its
\* distribution are not lower.
C15_MoreKeywordsHigherCoverage ==
    MoreKeywords =>
        /\ breakdown.coverage > previous.breakdown.coverage
        /\ (/\ breakdown.quality >= previous.breakdown.quality
            /\ breakdown.distribution >= previous.breakdown.distribution)
              => breakdown.total > previous.breakdown.total

\* of two keywords the second resume, one with bullets, contains more than the
\* first; its quality and distribution are not lower and its total is higher
C15_Witness ==
    /\ MoreKeywords
    /\ Len(sc_args.keywords) = 2
    /\ sc_args.bullet_texts # <<>>
    /\ breakdown.quality >= previous.breakdown.quality
    /\ breakdown.distribution >= previous.breakdown.distribution
    /\ breakdown.total > previous.breakdown.total

-----------------------------------------------------------------------------
(* Properties of the rewriter on labelled and spaced \item lines           *)
(* (SpecLayout)                                                            *)

OriginalLines == SplitLines(tex_content)

OptimizedLines == SplitLines(optimized_tex)

\* original.strip().startswith("\\item"), tests/test_latex_rewriter.py:15
IsItemLine(line) == MatchAt(Strip(line), ITEM, 0)

\* optimize_resume has returned
Rendered == pc \in {"done", "scored"}

\* C16: under the strict policy every \item line of the original text, with or
\* without a [label] argument or extra spacing after \item, differs in length
\* from the line at the same index of the optimized text by at most 10
\* characters.
C16_StrictLineBudget ==
    (Rendered /\ strict) =>
        \A i \in 1..Min(Len(OriginalLines), Len(OptimizedLines)) :
            IsItemLine(OriginalLines[i]) =>
                Abs(Len(OriginalLines[i]) - Len(OptimizedLines[i])) <= LengthBudget

\* the bullets as parse_document finds them in optimized_tex
OptimizedBullets == parse_document(optimized_tex).bullets

\* line i of the original text holds a bullet whose content the run changed
Edited(i) ==
    \E j \in 1..Len(bullets) :
        /\ OriginalBullets[j].line_index = i
        /\ bullets[j].content # OriginalBullets[j].content

\* C17: optimize_resume changes nothing but the content of edited bullets: the
\* number of lines is preserved, every non-bullet line and every bullet line
\* whose content was not changed is identical in the optimized text, and each
\* edited bullet keeps its line index and its leading whitespace.
C17_OnlyEditedBulletsChange ==
    Rendered =>
        /\ Len(OptimizedLines) = Len(OriginalLines)
        /\ \A i \in 1..Min(Len(OriginalLines), Len(OptimizedLines)) :
              ~Edited(i) => OptimizedLines[i] = OriginalLines[i]
        /\ Len(OptimizedBullets) = Len(OriginalBullets)
        /\ \A j \in 1..Min(Len(OriginalBullets), Len(OptimizedBullets)) :
              /\ OptimizedBullets[j].line_index = OriginalBullets[j].line_index
              /\ OptimizedBullets[j].leading = OriginalBullets[j].leading

\* the same frame for the runs in which no external service rewrote a bullet
FrameWithoutService ==
    (Rendered /\ ~(use_openai /\ client)) =>
        /\ Len(OptimizedLines) = Len(OriginalLines)
        /\ \A i \in 1..Len(OriginalLines) :
              ~Edited(i) => OptimizedLines[i] = OriginalLines[i]
        /\ Len(OptimizedBullets) = Len(OriginalBullets)
        /\ \A j \in 1..Len(OriginalBullets) :
              /\ OptimizedBullets[j].line_index = OriginalBullets[j].line_index
              /\ OptimizedBullets[j].leading = OriginalBullets[j].leading

-----------------------------------------------------------------------------
(* Properties of the rewriter, continued (SpecRewrite)                     *)

\* C18: under the strict policy every keyword that has no synonyms, neither in
\* the curated table nor from its candidate, ends the run with
\* keyword_map[token].before = keyword_map[token].after, whatever the document
\* and the other keywords.
C18_NoSynonymsUnchanged ==
    (Rendered /\ strict) =>
        \A i \in 1..Len(keywords) :
            SynonymSet(keywords[i]) = {} =>
                keyword_map[keywords[i].token].before = keyword_map[keywords[i].token].after

-----------------------------------------------------------------------------
(* Properties of the rewriter on competing keywords (SpecOrder)            *)

\* C19: within one bullet the rewriter makes no edit, neither a synonym
\* substitution nor an append, for a keyword whose token the bullet's content
\* already contains when that keyword is considered, also when an edit made
\* for an earlier keyword brought the token in.
C19_NoEditWhenPresent ==
    [][(AtCandidate /\ Contains(updated, candidate.token)) => updated' = updated]_vars

\* the step goes to the next (bullet, keyword) pair in lexicographic order
NextPair ==
    \/ /\ pc = "bullet" /\ pc' = "keyword"
       /\ idx' = idx /\ kidx' = 1
    \/ /\ AtCandidate /\ pc' = "keyword"
       /\ idx' = idx /\ kidx' = kidx + 1
    \/ /\ pc' = "bullet" /\ idx <= Len(bullets)
       /\ idx' = idx + 1
       /\ pc = "keyword" => kidx > Len(keywords)
    \/ /\ idx > Len(bullets) /\ pc' \in {"done", "scored"}
       /\ idx' = idx /\ kidx' = kidx

\* a synonym of the candidate that could be replaced in `text`, the result
\* being within the strict budget of the bullet
Fits(text) ==
    \E syn \in SynonymSet(candidate) :
        LET r == _replace_synonym(text, syn, candidate.token)
        IN  r.success /\ Abs(Len(r.text) - Len(original)) <= LengthBudget

\* within a bullet under the strict policy: an edit is made for the candidate
\* when one fits the budget left by the edits of the earlier keywords, and no
\* edit made is taken back
EarlierKeywordWins ==
    (strict /\ pc = "keyword") =>
        /\ Abs(Len(updated') - Len(original)) <= LengthBudget
        /\ (NeedsEdit /\ Fits(updated)) => updated' # updated
        /\ (NeedsEdit /\ ~Fits(updated)) => updated' = updated
        /\ ~AtCandidate => updated' = updated

\* the ledger never decreases, and an edit is made only for the candidate and
\* only while the candidate is below the cap
EarlierBulletsServed ==
    \A t \in DOMAIN usage :
        /\ usage'[t] >= usage[t]
        /\ inserted'[t] # inserted[t] =>
              AtCandidate /\ t = candidate.token /\ usage[t] < UsageCap

\* C20: the rewriter considers the (bullet, keyword) pairs in lexicographic
\* order, bullets in document order and keywords in the given order within each
\* bullet; so of two edits competing for one bullet's strict length budget the
\* one for the earlier-listed keyword is applied, and of bullets competing for a
\* keyword's cap of 2 the earlier ones receive the insertions.
C20_LexicographicOrder ==
    [][NextPair /\ EarlierKeywordWins /\ EarlierBulletsServed]_vars

\* under the strict policy a later keyword is considered in a bullet already
\* edited for an earlier one: an edit for it would fit the budget of the
\* original content, not what the earlier edit left of it
C20_Witness ==
    /\ strict
    /\ NeedsEdit
    /\ kidx > 1
    /\ updated # original
    /\ Fits(original)
    /\ ~Fits(updated)

\* a third bullet is reached with a keyword capped by its insertions into the
\* two bullets before it, a synonym of it being there to replace
CapCompetition ==
    /\ AtCandidate
    /\ idx = 3
    /\ inserted[candidate.token] = UsageCap
    /\ usage[candidate.token] >= UsageCap
    /\ Fits(updated)

-----------------------------------------------------------------------------
(* Properties of the substitution and the append (SpecSubstitute)          *)

\* bullet j ends the run as its original content followed by " (<token>)" for
\* a token of the keyword list
GainedSuffix(j) ==
    \E t \in Tokens(keywords) :
        bullets[j].content = OriginalBullets[j].content \o Addition(t)

\* C21 as stated: a suffix " (<token>)" is appended only under the non-strict
\* policy, when no synonym substitution succeeded for the keyword in the bullet
\* and the keyword's ledger count is below 2; under the strict policy no bullet
\* ever gains such a suffix.
C21_NoSuffixUnderStrict ==
    (Rendered /\ strict) => \A j \in 1..Len(bullets) : ~GainedSuffix(j)

\* C21, amended: the keyword loop appends " (<token>)" only under the non-strict
\* policy, when no synonym substitution succeeded for the candidate in the
\* bullet and the candidate's ledger count is below 2; under the strict policy
\* no bullet that the loop handled gains such a suffix (a bullet that the
\* external service rewrote holds whatever it answered).
C21_AppendOnlyNonStrict ==
    [][/\ (pc = "keyword" /\ updated' # updated /\ Len(updated') >= Len(updated)
              /\ SubSeq(updated', 1, Len(updated)) = updated) =>
             /\ AtCandidate
             /\ updated' = updated \o Addition(candidate.token)
             /\ ~strict
             /\ ~Attempt.replaced
             /\ usage[candidate.token] < UsageCap
       /\ (strict /\ pc = "keyword" /\ pc' = "bullet") =>
             \A t \in Tokens(keywords) : updated' # original \o Addition(t)]_vars

\* a non-strict run has appended the suffix for a keyword none of whose
\* synonyms could be replaced in the bullet, a synonym next to a backslash
\* being there
C21_Witness ==
    /\ pc = "keyword"
    /\ ~strict
    /\ original = BulletMacro
    /\ updated = original \o Addition(Python)

\* the synonym stands in the bullet at 0-based offset p, in whatever case
OccursAt(text_, syn, p) ==
    /\ p + Len(syn) <= Len(text_)
    /\ Lower(Slice(text_, p, p + Len(syn))) = syn

\* the offset of the first occurrence of the synonym in the bullet, -1 for none
FirstOccurrence(text_, syn) ==
    IF \E p \in 0..Len(text_) : OccursAt(text_, syn, p)
    THEN CHOOSE p \in 0..Len(text_) :
             /\ OccursAt(text_, syn, p)
             /\ \A q \in 0..(p - 1) : ~OccursAt(text_, syn, q)
    ELSE -1

\* the substitution the claim describes: the first occurrence of the synonym
\* gives way to the token, unless a backslash lies within two characters of it
\* or the result leaves the strict budget
Substitution(text_, syn, token) ==
    LET p == FirstOccurrence(text_, syn)
        near == Slice(text_, Max(0, p - 2), p + Len(syn) + 2)
        new == Slice(text_, 0, p) \o token \o Slice(text_, p + Len(syn), Len(text_))
    IN  IF p = -1 \/ Contains(near, <<"\\">>) THEN [text |-> text_, success |-> FALSE]
        ELSE IF strict /\ Abs(Len(new) - Len(original)) > LengthBudget
        THEN [text |-> text_, success |-> FALSE]
        ELSE [text |-> new, success |-> TRUE]

\* C22: a synonym substitution replaces only the first occurrence of the synonym
\* in the bullet with the canonical token and is refused when a backslash lies
\* within two characters of that occurrence or inside it; at most one
\* substitution is applied per keyword per bullet, that of the first synonym
\* tried that succeeds, and a refused or over-budget attempt leaves the bullet
\* unchanged.
C22_FirstOccurrenceOnly ==
    [][AtCandidate =>
          LET order == synOrder[candidate]
              ok(i) == Substitution(updated, order[i], candidate.token).success
          IN  \/ updated' = updated
              \/ /\ updated' = updated \o Addition(candidate.token)
                 /\ \A i \in 1..Len(order) : ~ok(i)
              \/ \E i \in 1..Len(order) :
                    /\ ok(i)
                    /\ \A j \in 1..(i - 1) : ~ok(j)
                    /\ updated' = Substitution(updated, order[i], candidate.token).text]_vars

-----------------------------------------------------------------------------
(* Properties of the keyword map and of the synonym order (SpecRewrite,    *)
(* SpecSubstitute)                                                         *)

\* C23: for every keyword of the list keyword_map[token].after is at least
\* keyword_map[token].before: no edit made for one keyword removes an
\* occurrence of another listed keyword's token from the document.
C23_CountsNeverFall ==
    Rendered =>
        \A t \in Tokens(keywords) : keyword_map[t].after >= keyword_map[t].before


\* the text the synonym loop of lines 133-144 leaves when the set is iterated
\* in the given order
LoopResult(order) ==
    TrySynonyms(order, 1, updated, candidate.token, original, strict).text

\* C24: the result of the deterministic rewriter does not depend on the order
\* in which a keyword's synonyms are tried: whenever the synonym loop is
\* entered for a keyword, every iteration order of its synonym set leaves the
\* same bullet text.
C24_OrderIndependent ==
    NeedsEdit =>
        \A o1, o2 \in Perms(SynonymSet(candidate)) : LoopResult(o1) = LoopResult(o2)


-----------------------------------------------------------------------------
(* Properties of the fallback from the external rewrite (SpecSubstitute)   *)

\* what the service returned for the bullet, stripped
Returned(orig, outcome) == Strip(IF outcome.kind = "echo" THEN orig ELSE outcome.text)

\* the outcomes that give nothing usable: no client, the call raises, an empty
\* text, the bullet itself, or under strict a text off the length budget
Unusable(orig, outcome) ==
    \/ ~client
    \/ outcome.kind = "raise"
    \/ Returned(orig, outcome) = <<>>
    \/ Returned(orig, outcome) = orig
    \/ strict /\ Abs(Len(Returned(orig, outcome)) - Len(orig)) > LengthBudget

\* the step with which the deterministic algorithm enters a bullet
DeterministicEntry(orig) ==
    /\ original' = orig /\ updated' = orig
    /\ per_bullet' = TokenCounts(keywords, orig)
    /\ kidx' = 1 /\ pc' = "keyword" /\ idx' = idx
    /\ UNCHANGED <<lines, bullets, usage, recorded, inserted>>

\* the step that ends a bullet with the text of the service
AcceptedRewrite(text) ==
    /\ updated' = text
    /\ bullets' = replace_bullet_bullets(bullets, idx, text)
    /\ usage' = AddCounts(usage, keywords, 1, text)
    /\ idx' = idx + 1 /\ pc' = "bullet"
    /\ UNCHANGED <<kidx, per_bullet, inserted>>

\* C25: when external rewriting is requested, a bullet whose service outcome
\* is unusable (no client, the call raises, empty text, text identical to the
\* original, or under strict a length difference above 10) is entered exactly
\* as the deterministic algorithm enters it, with the ledger untouched; an
\* accepted rewrite ends the bullet without any deterministic step.
C25_UnusableFallsBack ==
    [][(pc = "bullet" /\ idx <= Len(bullets) /\ use_openai) =>
          LET orig == bullets[idx].content
          IN  \/ /\ \E outcome \in AIOutcomesSuffix : Unusable(orig, outcome)
                 /\ DeterministicEntry(orig)
              \/ \E outcome \in AIOutcomesSuffix :
                    /\ ~Unusable(orig, outcome)
                    /\ AcceptedRewrite(Returned(orig, outcome))]_vars

\* a bullet entered deterministically although the service was asked, in a
\* run where the service has a client and a usable answer exists
C25_Witness ==
    /\ pc = "keyword" /\ use_openai /\ client /\ strict
    /\ original = BulletTwo /\ updated = original
    /\ \E i \in 1..Len(bullets) : i < idx /\ bullets[i].content = AnswerSuffix


-----------------------------------------------------------------------------
(* Properties of the pipeline command (SpecPipeline)                       *)

PipelineDone == ppc = "done"

\* the postings whose total reaches the threshold
Meeting == {i \in 1..Len(postings) : postings[i] >= ats_threshold}

\* the posting the command should report: the first that meets the
\* threshold, else the earliest of those with the highest total
Expected ==
    IF Meeting # {} THEN CHOOSE i \in Meeting : \A j \in Meeting : i <= j
    ELSE CHOOSE i \in 1..Len(postings) :
            /\ \A j \in 1..Len(postings) : postings[j] <= postings[i]
            /\ \A j \in 1..(i - 1) : postings[j] < postings[i]

\* C26: the pipeline command optimizes the postings in harvest order and
\* stops at the first whose total after the rewrite reaches ats_threshold,
\* reporting that posting and optimizing none after it; when none reaches the
\* threshold it reports the highest total, the earliest among equals; it
\* exits with code 1 exactly when there are no postings.
C26_FirstMeetingElseBest ==
    /\ optimized = [k \in 1..Len(optimized) |-> k]
    /\ \A k \in 1..(Len(optimized) - 1) : postings[optimized[k]] < ats_threshold
    /\ PipelineDone =>
          /\ (exit_code = 1) <=> (postings = <<>>)
          /\ postings # <<>> =>
                /\ best_result = OptimizeResult(Expected)
                /\ Len(optimized) = IF Meeting # {} THEN Expected ELSE Len(postings)

\* three postings, the second the first to reach the threshold: two calls of
\* _optimize, the second reported
C26_Witness ==
    /\ PipelineDone /\ Len(postings) = 3
    /\ postings[1] < ats_threshold /\ postings[2] >= ats_threshold
    /\ optimized = <<1, 2>> /\ best_result.posting = 2 /\ exit_code = 0

\* C27: when the pipeline command finishes, the files at the paths it reports
\* (optimized_tex, diff, keyword_map, report, pdf) hold the artifacts written
\* for the posting whose result is reported as best.
C27_FilesOfBest ==
    (PipelineDone /\ exit_code = 0) =>
        \A path \in ArtifactPaths : files[path] = best_result.posting


-----------------------------------------------------------------------------
(* Properties of the distribution and quality scores (SpecScore)           *)

\* occurrences of the token of kws[i] in one bullet
InBullet(text, kws, i) == Count(Lower(text), kws[i].token)

\* 5 for every occurrence beyond the limit
Excess(c, limit) == IF c > limit THEN 5 * (c - limit) ELSE 0

\* the distribution score as the formula gives it, in hundredths:
\* clamp(70 + 30 * covered / k - penalty, 0, 100)
DistributionFormula(texts, kws) ==
    LET k == Len(kws)
        n == Len(texts)
        total == [i \in 1..k |-> Sum([b \in 1..n |-> InBullet(texts[b], kws, i)], n)]
        global == Sum([i \in 1..k |-> Excess(total[i], 2)], k)
        local == Sum([b \in 1..n |->
                        Sum([i \in 1..k |-> Excess(InBullet(texts[b], kws, i), 1)], k)], n)
        covered == Cardinality({i \in 1..k : total[i] > 0})
        scaled == 7000 * k + 3000 * covered - 100 * (global + local) * k
    IN  IF scaled <= 0 THEN 0 ELSE Min(Round(scaled, k), 10000)

\* C28: for a non-empty keyword list the distribution score equals
\* clamp(70 + 30 * (keywords with at least one occurrence in the bullets /
\* number of keywords) - penalty, 0, 100), the penalty being 5 * (total
\* occurrences - 2) for every keyword whose total exceeds 2 plus
\* 5 * (occurrences in the bullet - 1) for every bullet and keyword whose
\* count in that bullet exceeds 1.
C28_DistributionFormula ==
    (Scored /\ sc_args.keywords # <<>>) =>
        breakdown.distribution = DistributionFormula(sc_args.bullet_texts, sc_args.keywords)


\* the bullet opens with an action verb
ActionLed(text) ==
    LET words == Split(Lower(text))
    IN  words # <<>> /\ words[1] \in ACTION_VERBS

\* the bullet is shorter than 35 or longer than 220 characters
OffLength(text) == Len(text) < 35 \/ Len(text) > 220

\* the bullet holds a word ending in "ed" and, among its first five words, a
\* word ending in "ing"
MixedTense(text) ==
    LET words == Split(Lower(text))
    IN  /\ \E w \in 1..Len(words) :
              Len(words[w]) >= 2 /\ SubSeq(words[w], Len(words[w]) - 1, Len(words[w])) = <<"e", "d">>
        /\ \E w \in 1..Len(words) :
              /\ w <= 5 /\ Len(words[w]) >= 3
              /\ SubSeq(words[w], Len(words[w]) - 2, Len(words[w])) = <<"i", "n", "g">>

\* how many of the bullets satisfy P, bullet by bullet
HowMany(texts, P(_)) == Sum([b \in 1..Len(texts) |-> IF P(texts[b]) THEN 1 ELSE 0], Len(texts))

\* max(0, 60 + 30 * led / n - 4 * off - 4 * mixed), in hundredths
QualityFormula(texts) ==
    LET n == Len(texts)
        value == 6000 * n + 3000 * HowMany(texts, ActionLed)
                   - 400 * n * HowMany(texts, OffLength) - 400 * n * HowMany(texts, MixedTense)
    IN  IF value <= 0 THEN 0 ELSE Round(value, n)

\* C29: the quality score is 50 when there are no bullets; otherwise it equals
\* max(0, 60 + 30 * (fraction of bullets whose first word is an action verb)
\* - 4 * (bullets shorter than 35 or longer than 220 characters)
\* - 4 * (bullets with a word ending in "ed" and, among their first five
\* words, a word ending in "ing")).
C29_QualityFormula ==
    Scored =>
        breakdown.quality = IF sc_args.bullet_texts = <<>> THEN 5000
                            ELSE QualityFormula(sc_args.bullet_texts)

\* a scored list that holds a short bullet of mixed tense without an action
\* verb and a bullet that opens with one: 60 + 30 / 2 - 4 - 4
C29_Witness ==
    /\ Scored
    /\ sc_args.bullet_texts = <<BulletFixed, BulletBuilt>>
    /\ ~ActionLed(BulletFixed) /\ OffLength(BulletFixed) /\ MixedTense(BulletFixed)
    /\ ActionLed(BulletBuilt) /\ ~OffLength(BulletBuilt) /\ ~MixedTense(BulletBuilt)
    /\ breakdown.quality = 6700

=============================================================================
